---- MODULE Spec2Model ----
(***************************************************************************)
(* TiledMapConverter: the tile model (decoder.go), the border extractor    *)
(* (ComputeBorderOfLayer) and the spawn extractor                          *)
(* (ExtractSpawnInfoFromLayer), as state machines over a decoded tilemap.  *)
(***************************************************************************)
EXTENDS Integers, Sequences, FiniteSets, TLC

VARIABLES
    width,      \* tilemap.Width
    height,     \* tilemap.Height
    layers,     \* tilemap.Layers: sequence of [Name, Tiles]
    pc,         \* position of the driver
    borders,    \* result of ComputeBorder: SortedBorderLines
    resources,  \* result of ExtractSpawnInfo: []ResourcePoint
    waterdropSources, \* result of ExtractSpawnInfo: []WaterdropSource
    players,    \* result of ExtractSpawnInfo: []Player
    err,        \* outcome of the last call: "nil", "error" or "panic"
    decoded,    \* history: tilemap.Layers as the decoder produced them
    input,      \* the unmarshalled .tmx file and the width of int in the build
    out,        \* the bytes written to the bufio.Writer
    file        \* the target file: "absent", "created" or "removed"

vars == <<width, height, layers, pc, borders, resources, waterdropSources, players, err,
          decoded, input, out, file>>

ioVars == <<input, out, file>>

----------------------------------------------------------------------------
(* Bounds of the model *)

MaxWidth == 4
MaxHeight == 4
MaxEdits == 1

----------------------------------------------------------------------------
(* Tile model: decoder.go *)

ENVIRONMENT_TILESET == 0
DECORATION_TILESET == 1
SPAWN_TILESET == 2
NoTileSet == -1

FIRST_DIAGONAL_TILE_TYPE == 6*8 + 1

COMPLETELY_ACCESSIBLE == 0
COMPLETELY_SOLID == 1
SOLID_AT_UPPER_LEFT == 2
SOLID_AT_UPPER_RIGHT == 3
SOLID_AT_LOWER_LEFT == 4
SOLID_AT_LOWER_RIGHT == 5

LEFT == 0
RIGHT == 1
UP == 2
DOWN == 3
UPLEFT == 4
UPRIGHT == 5
DOWNLEFT == 6
DOWNRIGHT == 7

Tile(index, flags, tileSet) == [Index |-> index, Flags |-> flags, TileSet |-> tileSet]

IsOrientationDiagonal(orientation) == orientation >= UPLEFT

GetInvertedOrientation(orientation) ==
    CASE orientation = LEFT -> RIGHT
      [] orientation = RIGHT -> LEFT
      [] orientation = UP -> DOWN
      [] orientation = DOWN -> UP
      [] orientation = UPLEFT -> DOWNRIGHT
      [] orientation = UPRIGHT -> DOWNLEFT
      [] orientation = DOWNLEFT -> UPRIGHT
      [] orientation = DOWNRIGHT -> UPLEFT

IsCompletelyAccessible(tile) == tile.Index = 0

IsDiagonal(tile) == tile.Index >= FIRST_DIAGONAL_TILE_TYPE

IsCompletelySolid(tile) ==
    IF IsCompletelyAccessible(tile) \/ IsDiagonal(tile) THEN FALSE ELSE TRUE

FlagLookupTable ==
    << SOLID_AT_UPPER_LEFT, SOLID_AT_UPPER_RIGHT, SOLID_AT_LOWER_LEFT, SOLID_AT_LOWER_RIGHT,
       SOLID_AT_LOWER_RIGHT, SOLID_AT_UPPER_RIGHT, SOLID_AT_LOWER_LEFT, SOLID_AT_UPPER_LEFT >>

\* GetType reading the lookup table with the rotation bits only
GetType_RotationOnly(tile) ==
    IF tile.Index = 0 THEN COMPLETELY_ACCESSIBLE
    ELSE IF ~IsDiagonal(tile) THEN COMPLETELY_SOLID
    ELSE FlagLookupTable[(tile.Flags % 4) + 1]

GetType(tile) ==
    IF tile.Index = 0 THEN COMPLETELY_ACCESSIBLE
    ELSE IF ~IsDiagonal(tile) THEN COMPLETELY_SOLID
    ELSE FlagLookupTable[(tile.Flags % 8) + 1]

\* GetUpVector where a tile that is only flipped keeps the up vector of the plain tile
GetUpVector_FlipKeepsUp(tile) ==
    CASE tile.Flags \in {0, 4, 7} -> <<0, -1>>
      [] tile.Flags \in {1, 6} -> <<-1, 0>>
      [] tile.Flags \in {2, 5} -> <<1, 0>>
      [] tile.Flags = 3 -> <<0, 1>>

\* (ux, uy) as a pair
GetUpVector(tile) ==
    CASE tile.Flags % 8 = 0 -> <<0, -1>>
      [] tile.Flags % 8 = 1 -> <<-1, 0>>
      [] tile.Flags % 8 = 2 -> <<1, 0>>
      [] tile.Flags % 8 = 3 -> <<0, 1>>
      [] tile.Flags % 8 = 4 -> <<0, 1>>
      [] tile.Flags % 8 = 5 -> <<1, 0>>
      [] tile.Flags % 8 = 6 -> <<-1, 0>>
      [] tile.Flags % 8 = 7 -> <<0, -1>>

GetRightVector(tile) ==
    LET up == GetUpVector(tile) IN <<-up[2], up[1]>>

RECURSIVE BitAnd(_, _)
\* a & b on non-negative integers
BitAnd(a, b) ==
    IF a = 0 \/ b = 0 THEN 0
    ELSE (a % 2) * (b % 2) + 2 * BitAnd(a \div 2, b \div 2)

\* uint8 arithmetic: every intermediate value is reduced mod 2^8
PopCount(b) ==
    LET b1 == (b - BitAnd(b \div 2, 85)) % 256
        b2 == (BitAnd(b1, 51) + BitAnd(b1 \div 4, 51)) % 256
    IN  (BitAnd((b2 + (b2 \div 16)) % 256, 15) * 1) % 256

IsMirrored(tile) == PopCount(BitAnd(tile.Flags, 7)) % 2 = 1

\* Tile.HasBorderTowards with a solid tile bordering all eight sides
Tile_HasBorderTowards_SolidAllSides(tile, side) ==
    LET type == GetType(tile) IN
    CASE type = COMPLETELY_ACCESSIBLE -> FALSE
      [] type = COMPLETELY_SOLID -> TRUE
      [] type = SOLID_AT_UPPER_LEFT -> side = LEFT \/ side = UP \/ side = DOWNRIGHT
      [] type = SOLID_AT_UPPER_RIGHT -> side = RIGHT \/ side = UP \/ side = DOWNLEFT
      [] type = SOLID_AT_LOWER_LEFT -> side = LEFT \/ side = DOWN \/ side = UPRIGHT
      [] type = SOLID_AT_LOWER_RIGHT -> side = RIGHT \/ side = DOWN \/ side = UPLEFT

Tile_HasBorderTowards(tile, side) ==
    LET type == GetType(tile) IN
    CASE type = COMPLETELY_ACCESSIBLE -> FALSE
      [] type = COMPLETELY_SOLID -> ~IsOrientationDiagonal(side)
      [] type = SOLID_AT_UPPER_LEFT -> side = LEFT \/ side = UP \/ side = DOWNRIGHT
      [] type = SOLID_AT_UPPER_RIGHT -> side = RIGHT \/ side = UP \/ side = DOWNLEFT
      [] type = SOLID_AT_LOWER_LEFT -> side = LEFT \/ side = DOWN \/ side = UPRIGHT
      [] type = SOLID_AT_LOWER_RIGHT -> side = RIGHT \/ side = DOWN \/ side = UPLEFT

\* GetLayer returns the index (0-based) of the only layer with the given name
GetLayer(ls, layername) ==
    LET found == {i \in 1..Len(ls) : ls[i].Name = layername} IN
    IF Cardinality(found) > 1 THEN [idx |-> -1, err |-> "error"]
    ELSE IF found = {} THEN [idx |-> -1, err |-> "error"]
    ELSE [idx |-> (CHOOSE i \in found : TRUE) - 1, err |-> "nil"]

\* GetTile returns the tile at a given position (Tiles is 0-based in the source)
GetTile(layer, X, Y, MapWidth, MapHeight) ==
    IF X < 0 \/ X >= MapWidth \/ Y < 0 \/ Y >= MapHeight
    THEN [tile |-> Tile(0, 0, NoTileSet), err |-> "error"]
    ELSE LET idx == Y * MapWidth + X IN
         IF idx < 0 \/ idx >= Len(layer.Tiles)
         THEN [tile |-> Tile(0, 0, NoTileSet), err |-> "error"]
         ELSE [tile |-> layer.Tiles[idx + 1], err |-> "nil"]

----------------------------------------------------------------------------
(* Border extractor *)

BorderLine(startX, startY, length) == [StartX |-> startX, StartY |-> startY, Length |-> length]

EmptyBorders ==
    [Left |-> <<>>, Right |-> <<>>, Up |-> <<>>, Down |-> <<>>,
     UpLeft |-> <<>>, UpRight |-> <<>>, DownLeft |-> <<>>, DownRight |-> <<>>]

\* mutation of HasBorderTowards: the neighbour's own border is not consulted
HasBorderTowards_IgnoresNeighbour(tile, neighbour, tileSide) ==
    Tile_HasBorderTowards(tile, tileSide)

\* mutation of HasBorderTowards: the neighbour is asked for the same side
HasBorderTowards_SameSide(tile, neighbour, tileSide) ==
    IF ~Tile_HasBorderTowards(tile, tileSide) THEN FALSE
    ELSE IF Tile_HasBorderTowards(neighbour, tileSide) THEN FALSE
    ELSE TRUE

\* mutation of HasBorderTowards: diagonal tiles take no part in cardinal borders
HasBorderTowards_DiagonalsApart(tile, neighbour, tileSide) ==
    IF IsDiagonal(tile) \/ ~Tile_HasBorderTowards(tile, tileSide) THEN FALSE
    ELSE IF IsDiagonal(neighbour) THEN TRUE
    ELSE ~Tile_HasBorderTowards(neighbour, GetInvertedOrientation(tileSide))

\* Every call site passes a cardinal side, so the panic on a diagonal side is unreachable.
HasBorderTowards(tile, neighbour, tileSide) ==
    IF ~Tile_HasBorderTowards(tile, tileSide) THEN FALSE
    ELSE IF Tile_HasBorderTowards(neighbour, GetInvertedOrientation(tileSide)) THEN FALSE
    ELSE TRUE

\* borders.Right: the run of upwards facing edges from upwardsBorderStart to x = upwardsBorderEnd
RightBorderLine(upwardsBorderStart, y, x) ==
    BorderLine(upwardsBorderStart, y, x - upwardsBorderStart)

\* borders.Left: the run of downwards facing edges, starting at its right end
LeftBorderLine(downwardsBorderStart, y, x) ==
    BorderLine(x, y, x - downwardsBorderStart)

\* borders.Up: the run of edges facing left, starting at its lower end y = leftBorderEnd
UpBorderLine(leftBorderStart, x, y) ==
    BorderLine(x, y, y - leftBorderStart)

\* mutation of DownBorderLine: the length counts the cell that ended the run
DownBorderLine_CountsEnd(rightBorderStart, x, y) ==
    BorderLine(x, rightBorderStart, y - rightBorderStart + 1)

\* borders.Down: the run of edges facing right, starting at its upper end
DownBorderLine(rightBorderStart, x, y) ==
    BorderLine(x, rightBorderStart, y - rightBorderStart)

\* borders.DownRight: the run of SOLID_AT_LOWER_LEFT tiles from step upRightBorderStart to i
DownRightBorderLine(firstX, firstY, upRightBorderStart, i) ==
    BorderLine(firstX + upRightBorderStart, firstY + upRightBorderStart, i - upRightBorderStart)

\* borders.UpLeft: the run of SOLID_AT_UPPER_RIGHT tiles, starting at its lower right end
UpLeftBorderLine(firstX, firstY, downLeftBorderStart, i) ==
    BorderLine(firstX + i, firstY + i, i - downLeftBorderStart)

\* mutation of UpRightBorderLine: the start is the cell's upper instead of its lower corner
UpRightBorderLine_UpperCorner(firstX, firstY, upLeftBorderStart, i) ==
    BorderLine(firstX + upLeftBorderStart, firstY - upLeftBorderStart, i - upLeftBorderStart)

\* borders.UpRight: the run of SOLID_AT_LOWER_RIGHT tiles from step upLeftBorderStart to i
UpRightBorderLine(firstX, firstY, upLeftBorderStart, i) ==
    BorderLine(firstX + upLeftBorderStart, firstY - upLeftBorderStart + 1, i - upLeftBorderStart)

\* borders.DownLeft: the run of SOLID_AT_UPPER_LEFT tiles, starting at its upper right end
DownLeftBorderLine(firstX, firstY, downRightBorderStart, i) ==
    BorderLine(firstX + i, firstY - i + 1, i - downRightBorderStart)

\* Body of the inner loop of "Find horizontal borders"
HorizontalCell(st, x, y, w, h, layer) ==
    LET above == GetTile(layer, x, y - 1, w, h)
        mine == GetTile(layer, x, y, w, h)
    IN
    IF above.err # "nil" \/ mine.err # "nil" THEN [st EXCEPT !.err = "error"]
    ELSE
    LET st1 ==
            IF HasBorderTowards(mine.tile, above.tile, UP) /\ x # w - 1
            THEN IF st.upwardsBorderStart = -1
                 THEN [st EXCEPT !.upwardsBorderStart = x]
                 ELSE st
            ELSE IF st.upwardsBorderStart # -1
                 THEN [st EXCEPT
                        !.borders.Right = Append(@, RightBorderLine(st.upwardsBorderStart, y, x)),
                        !.upwardsBorderStart = -1]
                 ELSE st
    IN
        IF HasBorderTowards(above.tile, mine.tile, DOWN) /\ x # w - 1
        THEN IF st1.downwardsBorderStart = -1
             THEN [st1 EXCEPT !.downwardsBorderStart = x]
             ELSE st1
        ELSE IF st1.downwardsBorderStart # -1
             THEN [st1 EXCEPT
                    !.borders.Left = Append(@, LeftBorderLine(st1.downwardsBorderStart, y, x)),
                    !.downwardsBorderStart = -1]
             ELSE st1

RECURSIVE HorizontalRow(_, _, _, _, _, _)
\* mutation of HorizontalRow: the loop ends one cell early (x < width-1)
HorizontalRow_StopsEarly(st, x, y, w, h, layer) ==
    IF st.err # "nil" \/ ~(x < w - 1) THEN st
    ELSE HorizontalRow(HorizontalCell(st, x, y, w, h, layer), x + 1, y, w, h, layer)

\* for x := 1; x < width; x++
HorizontalRow(st, x, y, w, h, layer) ==
    IF st.err # "nil" \/ ~(x < w) THEN st
    ELSE HorizontalRow(HorizontalCell(st, x, y, w, h, layer), x + 1, y, w, h, layer)

RECURSIVE HorizontalSweep(_, _, _, _, _)
\* for y := 1; y < height; y++
HorizontalSweep(res, y, w, h, layer) ==
    IF res.err # "nil" \/ ~(y < h) THEN res
    ELSE LET st == HorizontalRow([borders |-> res.borders, err |-> "nil",
                                  upwardsBorderStart |-> -1, downwardsBorderStart |-> -1],
                                 1, y, w, h, layer)
         IN  HorizontalSweep([borders |-> st.borders, err |-> st.err], y + 1, w, h, layer)

\* Body of the inner loop of "Find vertical borders"
VerticalCell(st, x, y, w, h, layer) ==
    LET left == GetTile(layer, x - 1, y, w, h)
        mine == GetTile(layer, x, y, w, h)
    IN
    IF left.err # "nil" \/ mine.err # "nil" THEN [st EXCEPT !.err = "error"]
    ELSE
    LET st1 ==
            IF HasBorderTowards(mine.tile, left.tile, LEFT) /\ y # h - 1
            THEN IF st.leftBorderStart = -1
                 THEN [st EXCEPT !.leftBorderStart = y]
                 ELSE st
            ELSE IF st.leftBorderStart # -1
                 THEN [st EXCEPT
                        !.borders.Up = Append(@, UpBorderLine(st.leftBorderStart, x, y)),
                        !.leftBorderStart = -1]
                 ELSE st
    IN
        IF HasBorderTowards(left.tile, mine.tile, RIGHT) /\ y # h - 1
        THEN IF st1.rightBorderStart = -1
             THEN [st1 EXCEPT !.rightBorderStart = y]
             ELSE st1
        ELSE IF st1.rightBorderStart # -1
             THEN [st1 EXCEPT
                    !.borders.Down = Append(@, DownBorderLine(st1.rightBorderStart, x, y)),
                    !.rightBorderStart = -1]
             ELSE st1

RECURSIVE VerticalColumn(_, _, _, _, _, _)
\* for y := 1; y < height; y++
VerticalColumn(st, x, y, w, h, layer) ==
    IF st.err # "nil" \/ ~(y < h) THEN st
    ELSE VerticalColumn(VerticalCell(st, x, y, w, h, layer), x, y + 1, w, h, layer)

RECURSIVE VerticalSweep(_, _, _, _, _)
\* for x := 1; x < width; x++
VerticalSweep(res, x, w, h, layer) ==
    IF res.err # "nil" \/ ~(x < w) THEN res
    ELSE LET st == VerticalColumn([borders |-> res.borders, err |-> "nil",
                                   leftBorderStart |-> -1, rightBorderStart |-> -1],
                                  x, 1, w, h, layer)
         IN  VerticalSweep([borders |-> st.borders, err |-> st.err], x + 1, w, h, layer)

\* Body of the inner loop of "Find diagonal borders from the top-left to the bottom-right".
\* The warning about diagonal tiles in the outer ring changes no state.
DiagonalCellDown(st, i, x, y, firstX, firstY, w, h, layer) ==
    LET got == GetTile(layer, x, y, w, h) IN
    IF got.err # "nil" THEN [st EXCEPT !.err = "error"]
    ELSE
    LET tile == got.tile
        st1 ==
            IF GetType(tile) = SOLID_AT_LOWER_LEFT
            THEN IF st.upRightBorderStart = -1
                 THEN [st EXCEPT !.upRightBorderStart = i]
                 ELSE st
            ELSE IF st.upRightBorderStart # -1
                 THEN [st EXCEPT
                        !.borders.DownRight = Append(@, DownRightBorderLine(firstX, firstY,
                                                                            st.upRightBorderStart, i)),
                        !.upRightBorderStart = -1]
                 ELSE st
    IN
        IF GetType(tile) = SOLID_AT_UPPER_RIGHT
        THEN IF st1.downLeftBorderStart = -1
             THEN [st1 EXCEPT !.downLeftBorderStart = i]
             ELSE st1
        ELSE IF st1.downLeftBorderStart # -1
             THEN [st1 EXCEPT
                    !.borders.UpLeft = Append(@, UpLeftBorderLine(firstX, firstY,
                                                                  st1.downLeftBorderStart, i)),
                    !.downLeftBorderStart = -1]
             ELSE st1

RECURSIVE DiagonalLineDown(_, _, _, _, _, _, _, _, _)
\* for i := 0; ; i++ { ...; x++; y++; if x >= width || y >= height { break } }
DiagonalLineDown(st, i, x, y, firstX, firstY, w, h, layer) ==
    LET st1 == DiagonalCellDown(st, i, x, y, firstX, firstY, w, h, layer) IN
    IF st1.err # "nil" THEN st1
    ELSE IF x + 1 >= w \/ y + 1 >= h THEN st1
    ELSE DiagonalLineDown(st1, i + 1, x + 1, y + 1, firstX, firstY, w, h, layer)

RECURSIVE DiagonalSweepDown(_, _, _, _, _)
\* for d := 0; d < diagonalChecks; d++
DiagonalSweepDown(res, d, w, h, layer) ==
    IF res.err # "nil" \/ ~(d < w + h - 1) THEN res
    ELSE LET firstX == IF d < w THEN d ELSE 0
             firstY == IF d < w THEN 0 ELSE d - w + 1
             st == DiagonalLineDown([borders |-> res.borders, err |-> "nil",
                                     upRightBorderStart |-> -1, downLeftBorderStart |-> -1],
                                    0, firstX, firstY, firstX, firstY, w, h, layer)
         IN  DiagonalSweepDown([borders |-> st.borders, err |-> st.err], d + 1, w, h, layer)

\* Body of the inner loop of "Find diagonal borders from the bottom-left to the top-right"
DiagonalCellUp(st, i, x, y, firstX, firstY, w, h, layer) ==
    LET got == GetTile(layer, x, y, w, h) IN
    IF got.err # "nil" THEN [st EXCEPT !.err = "error"]
    ELSE
    LET tile == got.tile
        st1 ==
            IF GetType(tile) = SOLID_AT_LOWER_RIGHT
            THEN IF st.upLeftBorderStart = -1
                 THEN [st EXCEPT !.upLeftBorderStart = i]
                 ELSE st
            ELSE IF st.upLeftBorderStart # -1
                 THEN [st EXCEPT
                        !.borders.UpRight = Append(@, UpRightBorderLine(firstX, firstY,
                                                                        st.upLeftBorderStart, i)),
                        !.upLeftBorderStart = -1]
                 ELSE st
    IN
        IF GetType(tile) = SOLID_AT_UPPER_LEFT
        THEN IF st1.downRightBorderStart = -1
             THEN [st1 EXCEPT !.downRightBorderStart = i]
             ELSE st1
        ELSE IF st1.downRightBorderStart # -1
             THEN [st1 EXCEPT
                    !.borders.DownLeft = Append(@, DownLeftBorderLine(firstX, firstY,
                                                                      st1.downRightBorderStart, i)),
                    !.downRightBorderStart = -1]
             ELSE st1

RECURSIVE DiagonalLineUp(_, _, _, _, _, _, _, _, _)
\* for i := 0; ; i++ { ...; x++; y--; if x >= width || y < 0 { break } }
DiagonalLineUp(st, i, x, y, firstX, firstY, w, h, layer) ==
    LET st1 == DiagonalCellUp(st, i, x, y, firstX, firstY, w, h, layer) IN
    IF st1.err # "nil" THEN st1
    ELSE IF x + 1 >= w \/ y - 1 < 0 THEN st1
    ELSE DiagonalLineUp(st1, i + 1, x + 1, y - 1, firstX, firstY, w, h, layer)

RECURSIVE DiagonalSweepUp(_, _, _, _, _)
\* for d := 0; d < diagonalChecks; d++
DiagonalSweepUp(res, d, w, h, layer) ==
    IF res.err # "nil" \/ ~(d < w + h - 1) THEN res
    ELSE LET firstX == IF d < w THEN d ELSE 0
             firstY == IF d < w THEN h - 1 ELSE d - w
             st == DiagonalLineUp([borders |-> res.borders, err |-> "nil",
                                   upLeftBorderStart |-> -1, downRightBorderStart |-> -1],
                                  0, firstX, firstY, firstX, firstY, w, h, layer)
         IN  DiagonalSweepUp([borders |-> st.borders, err |-> st.err], d + 1, w, h, layer)

\* The four sweeps in the order of the source; an error ends the computation.
ComputeBorderOfLayer(w, h, layer) ==
    LET r0 == [borders |-> EmptyBorders, err |-> "nil"]
        r1 == HorizontalSweep(r0, 1, w, h, layer)
        r2 == VerticalSweep(r1, 1, w, h, layer)
        r3 == DiagonalSweepDown(r2, 0, w, h, layer)
        r4 == DiagonalSweepUp(r3, 0, w, h, layer)
    IN  r4

----------------------------------------------------------------------------
(* Inputs of the border extractor: environment layers of W x H decoded tiles *)

EmptyTile == Tile(0, 0, NoTileSet)
SolidTile == Tile(1, 0, ENVIRONMENT_TILESET)
DiagonalTile(flags) == Tile(FIRST_DIAGONAL_TILE_TYPE, flags, ENVIRONMENT_TILESET)

EnvironmentTiles == {EmptyTile, SolidTile} \cup {DiagonalTile(f) : f \in 0..3}

\* The closed map: a ring of solid tiles around an empty interior
ClosedMap(w, h) ==
    [i \in 1..(w * h) |->
        LET x == (i - 1) % w
            y == (i - 1) \div w
        IN  IF x = 0 \/ y = 0 \/ x = w - 1 \/ y = h - 1 THEN SolidTile ELSE EmptyTile]

\* The closed map crossed by two walls of diagonal tiles: tiles with flags fDown along
\* the diagonal through (1,1), tiles with flags fUp along the one through (1,h-2)
DiagonalWalls(w, h, fDown, fUp) ==
    [i \in 1..(w * h) |->
        LET x == (i - 1) % w
            y == (i - 1) \div w
        IN  IF x = 0 \/ y = 0 \/ x = w - 1 \/ y = h - 1 THEN SolidTile
            ELSE IF x = y THEN DiagonalTile(fDown)
            ELSE IF x + y = h - 1 THEN DiagonalTile(fUp)
            ELSE EmptyTile]

BaseMaps(w, h) == {ClosedMap(w, h), DiagonalWalls(w, h, 2, 3), DiagonalWalls(w, h, 1, 0)}

RECURSIVE Edited(_, _, _)
\* the tile sequences that differ from base in at most k places
Edited(base, alphabet, k) ==
    IF k = 0 THEN {base}
    ELSE LET prev == Edited(base, alphabet, k - 1) IN
         prev \cup {[g EXCEPT ![i] = t] : g \in prev, i \in DOMAIN base, t \in alphabet}

\* The decoded environment layer holds any tile in any cell; the model explores the
\* layers within MaxEdits cells of a base map.
InitBorder ==
    /\ width \in 1..MaxWidth
    /\ height \in 1..MaxHeight
    /\ \E base \in BaseMaps(width, height) :
       \E g \in Edited(base, EnvironmentTiles, MaxEdits - 1) :
       \E i \in DOMAIN g, t \in EnvironmentTiles :
          layers = << [Name |-> "environment", Tiles |-> [g EXCEPT ![i] = t]] >>
    /\ pc = "ComputeBorder"
    /\ borders = EmptyBorders
    /\ resources = <<>>
    /\ waterdropSources = <<>>
    /\ players = <<>>
    /\ err = "nil"
    /\ decoded = layers
    /\ input = <<>> /\ out = <<>> /\ file = "absent"

\* ComputeBorder(tilemap)
ComputeBorder ==
    /\ pc = "ComputeBorder"
    /\ LET environmentLayerIdx == GetLayer(layers, "environment") IN
       IF environmentLayerIdx.err # "nil"
       THEN /\ err' = "error"
            /\ UNCHANGED borders
       ELSE LET r == ComputeBorderOfLayer(width, height, layers[environmentLayerIdx.idx + 1]) IN
            /\ borders' = r.borders
            /\ err' = r.err
    /\ pc' = "done"
    /\ UNCHANGED <<width, height, layers, resources, waterdropSources, players, decoded>>
    /\ UNCHANGED ioVars

NextBorder == ComputeBorder

\* the largest tile index of the single-tile layers
MaxTileIndex == 52

\* Layers of one cell, holding any tile with an index up to MaxTileIndex and any flags
InitTile ==
    /\ width = 1 /\ height = 1
    /\ \E index \in 0..MaxTileIndex, flags \in 0..7 :
          layers = << [Name |-> "environment",
                       Tiles |-> << Tile(index, flags, IF index = 0 THEN NoTileSet
                                                      ELSE ENVIRONMENT_TILESET) >>] >>
    /\ pc = "ComputeBorder" /\ borders = EmptyBorders /\ resources = <<>>
    /\ waterdropSources = <<>> /\ players = <<>> /\ err = "nil"
    /\ decoded = layers
    /\ input = <<>> /\ out = <<>> /\ file = "absent"

SpecTile == InitTile /\ [][NextBorder]_vars

SpecBorder == InitBorder /\ [][NextBorder]_vars

----------------------------------------------------------------------------
(* Spawn extractor *)

UnitType_Offense == 1
UnitType_Defense == 2
UnitType_LongRange == 3
UnitType_Special == 4
UnitType_Construction == 5

BuildingType_Base == 1
BuildingType_Pump == 2
BuildingType_Factory == 3
BuildingType_Turret == 4
BuildingType_Bridge == 5

ResourcePoint(x, y, flags) == [SpawnX |-> x, SpawnY |-> y, ResourcePointFlags |-> flags]
WaterdropSource(x, y, flags) == [SpawnX |-> x, SpawnY |-> y, WaterdropFlags |-> flags]
Unit(type, x, y) == [Type |-> type, SpawnX |-> x, SpawnY |-> y]
Building(type, x, y, flags) == [Type |-> type, SpawnX |-> x, SpawnY |-> y, Flags |-> flags]
NewPlayer == [Buildings |-> <<>>, Units |-> <<>>]

\* GetTileMapping: the tile ids of the spawn tileset
resourceMapping == 173
waterdropSpawnMapping == 177

\* firstIdx with nine ids for each player and no gap
firstIdx_Dense(i) == 1 + i * 9

firstIdx(i) == 1 + i * 10 + (i \div 2) * 20

\* unitmapping: tile id -> [Player, Type]
unitMapping ==
    LET ids == {firstIdx(i) + o : i \in 0..7, o \in {0, 2, 4, 6, 8}} IN
    [id \in ids |->
        LET i == CHOOSE j \in 0..7 : id - firstIdx(j) \in {0, 2, 4, 6, 8} IN
        [Player |-> i,
         Type |-> CASE id - firstIdx(i) = 0 -> UnitType_Offense
                    [] id - firstIdx(i) = 2 -> UnitType_Defense
                    [] id - firstIdx(i) = 4 -> UnitType_LongRange
                    [] id - firstIdx(i) = 6 -> UnitType_Special
                    [] id - firstIdx(i) = 8 -> UnitType_Construction]]

\* playermapping: tile id -> [Player]
playerMapping ==
    [id \in {firstIdx(i) + 9 : i \in 0..7} |->
        [Player |-> CHOOSE j \in 0..7 : id = firstIdx(j) + 9]]

\* buildingmapping: tile id -> [Type]
buildingMapping ==
    (162 :> [Type |-> BuildingType_Base]) @@
    (234 :> [Type |-> BuildingType_Pump]) @@
    (238 :> [Type |-> BuildingType_Turret])

\* The building of a player token: lines 217-246 of the scan. identY*width+identX is
\* not checked against the slice: an index outside it ends the program with a panic.
ResolveBuilding(st, mapping, tile, x, y, w, layer) ==
    LET flags == tile.Flags
        vec == GetRightVector(tile)
        identX == x + vec[1]
        identY == y + vec[2]
        at == identY * w + identX
    IN
    IF at < 0 \/ at >= Len(layer.Tiles) THEN [st EXCEPT !.err = "panic"]
    ELSE
    LET buildingTile == layer.Tiles[at + 1] IN
    IF buildingTile.TileSet = NoTileSet THEN [st EXCEPT !.err = "error"]
    ELSE IF tile.TileSet # SPAWN_TILESET THEN [st EXCEPT !.err = "error"]
    ELSE IF buildingTile.Flags # flags THEN [st EXCEPT !.err = "error"]
    ELSE IF buildingTile.Index \notin DOMAIN buildingMapping THEN [st EXCEPT !.err = "error"]
    ELSE [st EXCEPT !.players[mapping.Player + 1].Buildings =
                        Append(@, Building(buildingMapping[buildingTile.Index].Type, x, y, flags))]

\* the tileset check that lets every tile other than a nil tileset pass
SpawnTileSetError_NilOnly(tile) == tile.Index # 0 /\ tile.TileSet = NoTileSet

\* if tile.Index != 0 { if tile.TileSet == nil ... else if tile.TileSet.Type != SPAWN_TILESET
SpawnTileSetError(tile) ==
    tile.Index # 0 /\ (tile.TileSet = NoTileSet \/ tile.TileSet # SPAWN_TILESET)

\* Body of the scan loop for the tile at (x, y)
ScanTile(st, x, y, w, layer) ==
    LET idx == y * w + x
        tile == layer.Tiles[idx + 1]
        tileID == tile.Index
        flags == tile.Flags
    IN
    IF SpawnTileSetError(tile) THEN [st EXCEPT !.err = "error"]
    ELSE IF tileID = resourceMapping /\ IsMirrored(tile) THEN [st EXCEPT !.err = "error"]
    ELSE
    LET st1 == IF tileID = resourceMapping
               THEN [st EXCEPT !.resources = Append(@, ResourcePoint(x, y, flags))]
               ELSE st
        st2 == IF tileID = waterdropSpawnMapping
               THEN [st1 EXCEPT !.waterdrops = Append(@, WaterdropSource(x, y, flags))]
               ELSE st1
    IN
    IF tileID \in DOMAIN unitMapping
    THEN LET mapping == unitMapping[tileID] IN
         IF mapping.Player < 0 \/ mapping.Player >= 8 THEN [st2 EXCEPT !.err = "error"]
         ELSE IF flags # 0 THEN [st2 EXCEPT !.err = "error"]
         ELSE [st2 EXCEPT !.players[mapping.Player + 1].Units =
                              Append(@, Unit(mapping.Type, x, y))]
    ELSE IF tileID \in DOMAIN playerMapping
    THEN LET mapping == playerMapping[tileID] IN
         IF mapping.Player < 0 \/ mapping.Player >= 8 THEN [st2 EXCEPT !.err = "error"]
         ELSE IF IsMirrored(tile) THEN [st2 EXCEPT !.err = "error"]
         ELSE ResolveBuilding(st2, mapping, tile, x, y, w, layer)
    ELSE st2

RECURSIVE ScanTiles(_, _, _, _, _)
\* for y := 0; y < height; y++ { for x := 0; x < width; x++ { idx := y*width + x ...
ScanTiles(st, idx, w, h, layer) ==
    IF st.err # "nil" \/ ~(idx < w * h) THEN st
    ELSE ScanTiles(ScanTile(st, idx % w, idx \div w, w, layer), idx + 1, w, h, layer)

\* The scan of ExtractSpawnInfoFromLayer, up to "Validate and reduce"
ScanSpawnLayer(w, h, layer) ==
    ScanTiles([players |-> [i \in 1..8 |-> NewPlayer], resources |-> <<>>,
               waterdrops |-> <<>>, err |-> "nil"],
              0, w, h, layer)

\* baseBuildingCount counting every building of the player
baseBuildingCount_CountsAll(p) == Len(p.Buildings)

baseBuildingCount(p) ==
    Cardinality({j \in 1..Len(p.Buildings) : p.Buildings[j].Type = BuildingType_Base})

RECURSIVE ReducePlayers(_, _, _)
\* for i, p := range players: the players with a base building, or an error
ReducePlayers(res, i, scanned) ==
    IF res.err # "nil" \/ i > Len(scanned) THEN res
    ELSE LET p == scanned[i] IN
         IF baseBuildingCount(p) <= 0
         THEN IF Len(p.Units) # 0 THEN [res EXCEPT !.err = "error"]
              ELSE IF Len(p.Buildings) # 0 THEN [res EXCEPT !.err = "error"]
              ELSE ReducePlayers(res, i + 1, scanned)
         ELSE ReducePlayers([res EXCEPT !.actualPlayers = Append(@, p)], i + 1, scanned)

NoSpawnInfo == [resources |-> <<>>, waterdrops |-> <<>>, players |-> <<>>, err |-> "error"]

\* "Validate and reduce" of ExtractSpawnInfoFromLayer, on the result of a completed scan
ValidateAndReduce(st) ==
    IF Len(st.resources) < 1 THEN NoSpawnInfo
    ELSE LET res == ReducePlayers([actualPlayers |-> <<>>, err |-> "nil"], 1, st.players) IN
         IF res.err # "nil" THEN NoSpawnInfo
         ELSE IF Len(res.actualPlayers) <= 1 THEN NoSpawnInfo
         ELSE [resources |-> st.resources, waterdrops |-> st.waterdrops,
               players |-> res.actualPlayers, err |-> "nil"]

ExtractSpawnInfoFromLayer(w, h, layer) ==
    LET st == ScanSpawnLayer(w, h, layer) IN
    IF st.err # "nil" THEN [NoSpawnInfo EXCEPT !.err = st.err]
    ELSE ValidateAndReduce(st)

\* the layer list without its last layer
RemoveLayer_Last(ls, idx) == SubSeq(ls, 1, Len(ls) - 1)

\* tilemap.Layers without the layer at 0-based index idx
RemoveLayer(ls, idx) == SubSeq(ls, 1, idx) \o SubSeq(ls, idx + 2, Len(ls))

\* ExtractSpawnInfo(tilemap)
ExtractSpawnInfo ==
    /\ pc = "ExtractSpawnInfo"
    /\ LET spawnLayerIdx == GetLayer(layers, "spawn") IN
       IF spawnLayerIdx.err # "nil"
       THEN /\ err' = "error"
            /\ UNCHANGED <<layers, resources, waterdropSources, players>>
       ELSE LET r == ExtractSpawnInfoFromLayer(width, height, layers[spawnLayerIdx.idx + 1]) IN
            /\ err' = r.err
            /\ resources' = r.resources
            /\ waterdropSources' = r.waterdrops
            /\ players' = r.players
            /\ layers' = IF r.err = "nil" THEN RemoveLayer(layers, spawnLayerIdx.idx) ELSE layers
    /\ pc' = "done"
    /\ UNCHANGED <<width, height, borders, decoded>>
    /\ UNCHANGED ioVars

----------------------------------------------------------------------------
(* Spawn layers given to the spawn extractor *)

SpawnTile(index, flags) == Tile(index, flags, SPAWN_TILESET)

PlayerToken(p, flags) == SpawnTile(firstIdx(p) + 9, flags)
BaseTile(flags) == SpawnTile(162, flags)
PumpTile(flags) == SpawnTile(234, flags)
TurretTile(flags) == SpawnTile(238, flags)
ResourceTile(flags) == SpawnTile(resourceMapping, flags)

\* Four valid spawn layers, one for each rotation of the buildings: each has a resource
\* point and a base for the players 0 and 1, and the first two also hold a building tile
\* that no token points to. The fifth has a token in the first cell whose right-vector
\* points off the map.
SpawnLayouts ==
    LET E == EmptyTile IN
    { [w |-> 3, tiles |->
        << PlayerToken(0, 0), BaseTile(0),     E,
           PumpTile(0),       ResourceTile(0), E,
           PlayerToken(1, 0), BaseTile(0),     E >>],
      [w |-> 3, tiles |->
        << BaseTile(3), PlayerToken(0, 3), PumpTile(3),
           E,           ResourceTile(3),   E,
           BaseTile(3), PlayerToken(1, 3), E >>],
      [w |-> 3, tiles |->
        << PlayerToken(0, 5), ResourceTile(5),   PlayerToken(1, 5),
           BaseTile(5),       PlayerToken(0, 5), BaseTile(5),
           E,                 TurretTile(5),     E >>],
      [w |-> 3, tiles |->
        << BaseTile(6),       PumpTile(6),       BaseTile(6),
           PlayerToken(0, 6), PlayerToken(1, 6), PlayerToken(1, 6),
           ResourceTile(6),   E,                 E >>],
      [w |-> 3, tiles |->
        << PlayerToken(0, 3), E,                 E,
           BaseTile(3),       PlayerToken(0, 3), ResourceTile(3),
           BaseTile(3),       PlayerToken(1, 3), E >>] }

\* The tiles an edit of a spawn layer can place
SpawnTiles ==
    {SpawnTile(id, f) : id \in {resourceMapping, waterdropSpawnMapping, firstIdx(0),
                                firstIdx(0) + 9, 162},
                        f \in 0..7}
    \cup {EmptyTile, SolidTile, SpawnTile(2, 0), SpawnTile(firstIdx(2) + 8, 0),
          PlayerToken(1, 0), PlayerToken(2, 0), PumpTile(0), TurretTile(0),
          Tile(162, 0, ENVIRONMENT_TILESET), Tile(162, 3, DECORATION_TILESET)}

InitSpawn ==
    /\ \E layout \in SpawnLayouts :
       \E g \in Edited(layout.tiles, SpawnTiles, MaxEdits - 1) :
       \E i \in DOMAIN g, t \in SpawnTiles :
          /\ width = layout.w
          /\ height = Len(layout.tiles) \div layout.w
          /\ layers = << [Name |-> "environment", Tiles |-> ClosedMap(width, height)],
                         [Name |-> "spawn", Tiles |-> [g EXCEPT ![i] = t]] >>
    /\ pc = "ExtractSpawnInfo" /\ borders = EmptyBorders /\ resources = <<>>
    /\ waterdropSources = <<>> /\ players = <<>> /\ err = "nil"
    /\ decoded = layers
    /\ input = <<>> /\ out = <<>> /\ file = "absent"

NextSpawn == ExtractSpawnInfo

SpecSpawn == InitSpawn /\ [][NextSpawn]_vars

\* The layer lists given to ExtractSpawnInfo: the spawn layer first, in the middle, last,
\* missing or twice
LayerLists(e, sp) ==
    LET d == [Name |-> "decoration", Tiles |-> [i \in DOMAIN e.Tiles |-> EmptyTile]] IN
    { <<e, sp>>, <<sp, e>>, <<d, sp, e>>, <<sp, d, e>>, <<e, d>>, <<e>>, <<sp, e, sp>> }

InitLayers ==
    /\ \E layout \in SpawnLayouts :
       \E g \in Edited(layout.tiles, {EmptyTile, SolidTile}, MaxEdits) :
          /\ width = layout.w
          /\ height = Len(layout.tiles) \div layout.w
          /\ layers \in LayerLists([Name |-> "environment", Tiles |-> ClosedMap(width, height)],
                                    [Name |-> "spawn", Tiles |-> g])
    /\ pc = "ExtractSpawnInfo" /\ borders = EmptyBorders /\ resources = <<>>
    /\ waterdropSources = <<>> /\ players = <<>> /\ err = "nil"
    /\ decoded = layers
    /\ input = <<>> /\ out = <<>> /\ file = "absent"

NextLayers == ExtractSpawnInfo

SpecLayers == InitLayers /\ [][NextLayers]_vars

----------------------------------------------------------------------------
(* Layer decoding: LoadTilesFile and extractTiles *)

\* A token of the layer data is text that is no decimal integer (NotANumber), or the
\* decimal integer of sign neg and magnitude hi * 2^24 + lo.
Token(neg, hi, lo) == [num |-> TRUE, neg |-> neg, hi |-> hi, lo |-> lo]
NotANumber == [num |-> FALSE, neg |-> FALSE, hi |-> 0, lo |-> 0]

\* strconv.Atoi: fails on text that is no integer or is outside the range of int
AtoiFails(tok, intSize) ==
    \/ ~tok.num
    \/ /\ intSize = 32
       /\ IF tok.neg THEN tok.hi > 128 \/ (tok.hi = 128 /\ tok.lo > 0)
          ELSE tok.hi >= 128

\* uint32(value): the low 32 bits of the two's complement of the value, as hi * 2^24 + lo
Uint32(tok) ==
    IF ~tok.neg THEN [hi |-> tok.hi % 256, lo |-> tok.lo]
    ELSE IF tok.lo = 0 THEN [hi |-> (256 - (tok.hi % 256)) % 256, lo |-> 0]
    ELSE [hi |-> 255 - (tok.hi % 256), lo |-> 16777216 - tok.lo]

\* FlippedHorizontallyTiledFlag is bit 31, FlippedVerticallyTiledFlag bit 30,
\* FlippedDiagonallyTiledFlag bit 29
TiledFlags(v) ==
    ((v.hi \div 128) % 2) + 2 * ((v.hi \div 64) % 2) + 4 * ((v.hi \div 32) % 2)

\* tileID &^= the three flags
ClearTiledFlags(v) == [hi |-> v.hi % 32, lo |-> v.lo]

\* the loop over Tilesets: 0-based index of the tileset it stops at, -1 for nil
ResolveTileSet(tileID, Tilesets) ==
    LET reached == {k \in 0..Len(Tilesets) :
                       \A j \in 1..k : tileID >= Tilesets[j].FirstGid}
    IN  (CHOOSE k \in reached : \A l \in reached : l <= k) - 1

TileSetTypeOf(name) ==
    CASE name \in {"environment", "Environment"} -> ENVIRONMENT_TILESET
      [] name \in {"decoration", "Decoration"} -> DECORATION_TILESET
      [] name \in {"spawn", "Spawn"} -> SPAWN_TILESET
      [] OTHER -> NoTileSet

\* extractTiles, body of the loop for one token: the tile, or an error or a panic
ExtractTile(tok, Tilesets, intSize) ==
    IF AtoiFails(tok, intSize) THEN [tile |-> EmptyTile, err |-> "error"]
    ELSE
    LET v == Uint32(tok)
        flags == TiledFlags(v)
        id == ClearTiledFlags(v)
    IN
    IF id.hi > 0 THEN [tile |-> EmptyTile, err |-> "error"]
    ELSE
    LET tileID == id.lo
        at == ResolveTileSet(tileID, Tilesets)
    IN
    IF tileID > 0 /\ at < 0 THEN [tile |-> EmptyTile, err |-> "panic"]
    ELSE IF tileID > 0 /\ tileID >= Tilesets[at + 1].FirstGid + Tilesets[at + 1].TileCount
    THEN [tile |-> EmptyTile, err |-> "error"]
    ELSE [tile |-> Tile(tileID, flags,
                        IF tileID > 0 THEN TileSetTypeOf(Tilesets[at + 1].Name) ELSE NoTileSet),
          err |-> "nil"]

\* extractTiles: the loop ends at the first token that fails
extractTiles(RawData, expectedTileCount, Tilesets, intSize) ==
    IF Len(RawData) # expectedTileCount THEN [Tiles |-> <<>>, err |-> "error"]
    ELSE
    LET r == [i \in 1..Len(RawData) |-> ExtractTile(RawData[i], Tilesets, intSize)]
        failed == {i \in 1..Len(RawData) : r[i].err # "nil"}
    IN
    IF failed # {}
    THEN [Tiles |-> <<>>, err |-> r[CHOOSE i \in failed : \A j \in failed : i <= j].err]
    ELSE [Tiles |-> [i \in 1..Len(RawData) |-> r[i].tile], err |-> "nil"]

\* LoadTilesFile, after xml.Unmarshal: the tileset types, then the tiles of every layer
LoadTilesFile(tilemap, intSize) ==
    IF \E i \in 1..Len(tilemap.Tilesets) : TileSetTypeOf(tilemap.Tilesets[i].Name) = NoTileSet
    THEN [Layers |-> <<>>, err |-> "error"]
    ELSE
    LET expectedTileCount == tilemap.Width * tilemap.Height
        r == [i \in 1..Len(tilemap.Layers) |->
                extractTiles(tilemap.Layers[i].RawData, expectedTileCount,
                             tilemap.Tilesets, intSize)]
        failed == {i \in 1..Len(tilemap.Layers) : r[i].err # "nil"}
    IN
    IF failed # {}
    THEN [Layers |-> <<>>, err |-> r[CHOOSE i \in failed : \A j \in failed : i <= j].err]
    ELSE [Layers |-> [i \in 1..Len(tilemap.Layers) |->
                        [Name |-> tilemap.Layers[i].Name, Tiles |-> r[i].Tiles]],
          err |-> "nil"]

\* ValidateTileMap(tilemap)
ValidateTileMap(tilemap) ==
    IF tilemap.Width <= 0 THEN "error"
    ELSE IF tilemap.Height <= 0 THEN "error"
    ELSE IF tilemap.Orientation # "orthogonal" THEN "error"
    ELSE IF tilemap.Renderorder # "right-down" THEN "error"
    ELSE IF tilemap.Tilewidth # 256 \/ tilemap.Tileheight # 256 THEN "error"
    ELSE IF Len(tilemap.Layers) <= 0 /\ Len(tilemap.Layers) >= 256 THEN "error"
    ELSE IF Len(tilemap.Tilesets) <= 0 THEN "error"
    ELSE "nil"

\* Run: tilemap, err := LoadTilesFile(sourceFile)
RunLoadTilesFile ==
    /\ pc = "LoadTilesFile"
    /\ LET r == LoadTilesFile(input.TileMap, input.IntSize) IN
       /\ err' = r.err
       /\ layers' = r.Layers
       /\ decoded' = r.Layers
       /\ width' = input.TileMap.Width
       /\ height' = input.TileMap.Height
       /\ pc' = IF r.err = "nil" THEN "ValidateTileMap" ELSE "done"
    /\ UNCHANGED <<borders, resources, waterdropSources, players, input, out, file>>

\* Run: if err := ValidateTileMap(&tilemap); err != nil { return err }
RunValidateTileMap ==
    /\ pc = "ValidateTileMap"
    /\ err' = ValidateTileMap([input.TileMap EXCEPT !.Layers = layers])
    /\ pc' = IF err' = "nil" THEN "ExtractSpawnInfo" ELSE "done"
    /\ UNCHANGED <<width, height, layers, borders, resources, waterdropSources, players,
                   decoded, input, out, file>>

----------------------------------------------------------------------------
(* The .tmx files given to LoadTilesFile *)

TileSet(firstGid, name, tileCount) ==
    [FirstGid |-> firstGid, Name |-> name, TileCount |-> tileCount]

\* the token Tiled writes for a tile: the global id with the flip flags in bits 31..29
RawToken(tile) ==
    Token(FALSE, 128 * (tile.Flags % 2) + 64 * ((tile.Flags \div 2) % 2)
                 + 32 * ((tile.Flags \div 4) % 2), tile.Index)

RawLayer(name, tiles) == [Name |-> name, RawData |-> [i \in DOMAIN tiles |-> RawToken(tiles[i])]]

\* Tileset lists, sorted by FirstGid and with disjoint ranges: the spawn tileset first or
\* last, with and without a gap before it, with ids below the first tileset, and one
\* with a name that is no tileset kind
TilesetLists ==
    { << TileSet(1, "spawn", 300), TileSet(301, "environment", 48) >>,
      << TileSet(1, "Spawn", 300) >>,
      << TileSet(1, "environment", 48), TileSet(49, "spawn", 300) >>,
      << TileSet(1, "environment", 48), TileSet(101, "spawn", 300) >>,
      << TileSet(5, "environment", 48), TileSet(101, "spawn", 300) >>,
      << TileSet(1, "spawn", 300), TileSet(301, "objects", 48) >> }

\* The tokens an edit of the layer data can place
RawTokens ==
    { NotANumber, Token(FALSE, 0, 0), Token(FALSE, 0, 3), Token(FALSE, 0, 60),
      Token(FALSE, 0, 177), Token(FALSE, 0, 349), Token(FALSE, 0, 500),
      Token(FALSE, 128, 177), Token(FALSE, 96, 177), Token(FALSE, 224, 0),
      Token(FALSE, 1, 0), Token(FALSE, 16, 177), Token(FALSE, 256, 177),
      Token(TRUE, 0, 1), Token(TRUE, 255, 16777039), Token(TRUE, 31, 16777039) }

ValidHeader(w, h) ==
    [Width |-> w, Height |-> h, Version |-> "1.0", Orientation |-> "orthogonal",
     Renderorder |-> "right-down", Tilewidth |-> 256, Tileheight |-> 256]

TileMapOf(header, tilesets, rawLayers) ==
    [Width |-> header.Width, Height |-> header.Height, Version |-> header.Version,
     Orientation |-> header.Orientation, Renderorder |-> header.Renderorder,
     Tilewidth |-> header.Tilewidth, Tileheight |-> header.Tileheight,
     Tilesets |-> tilesets, Layers |-> rawLayers]

\* Files with a valid header: a tileset list, the environment layer of the closed map and
\* a spawn layer within edits tokens of a valid one, or with a token too many or too few
DataInputsOf(layout, edits) ==
    LET w == layout.w
        h == Len(layout.tiles) \div layout.w
        valid == RawLayer("spawn", layout.tiles).RawData
    IN
    { TileMapOf(ValidHeader(w, h), tilesets,
                << RawLayer("environment", ClosedMap(w, h)),
                   [Name |-> "spawn", RawData |-> raw] >>) :
        tilesets \in TilesetLists,
        raw \in Edited(valid, RawTokens, edits)
                \cup {Append(valid, Token(FALSE, 0, 0)), SubSeq(valid, 1, Len(valid) - 1)} }

DataInputs(edits) ==
    UNION {DataInputsOf(l, edits) : l \in {l \in SpawnLayouts : l.tiles[1] = PlayerToken(0, 0)}}

\* Files with valid tilesets and layers of empty tiles, and any header, layer count and
\* tileset count
HeaderInputs ==
    { TileMapOf([Width |-> w, Height |-> h, Version |-> v, Orientation |-> o,
                 Renderorder |-> r, Tilewidth |-> tw, Tileheight |-> th],
                SubSeq(<< TileSet(1, "spawn", 300), TileSet(301, "environment", 48) >>, 1, nts),
                [i \in 1..nl |->
                   [Name |-> IF i = 1 THEN "environment" ELSE "spawn",
                    RawData |-> IF w * h > 0 THEN [j \in 1..(w * h) |-> Token(FALSE, 0, 0)]
                                ELSE <<>>]]) :
        w \in {3, 0, -3}, h \in {1, 0, -1}, v \in {"1.0", "1.1"},
        o \in {"orthogonal", "isometric"}, r \in {"right-down", "left-up"},
        tw \in {256, 128}, th \in {256, 128}, nl \in {0, 2}, nts \in {0, 2} }

InitLoad ==
    /\ input \in [TileMap : DataInputs(MaxEdits) \cup HeaderInputs, IntSize : {32, 64}]
    /\ pc = "LoadTilesFile"
    /\ width = 0 /\ height = 0 /\ layers = <<>> /\ decoded = <<>>
    /\ borders = EmptyBorders /\ resources = <<>>
    /\ waterdropSources = <<>> /\ players = <<>> /\ err = "nil"
    /\ out = <<>> /\ file = "absent"

NextLoad == RunLoadTilesFile \/ RunValidateTileMap \/ ExtractSpawnInfo

SpecLoad == InitLoad /\ [][NextLoad]_vars

----------------------------------------------------------------------------
(* Encoder *)

\* binary.Write(writer, binary.LittleEndian, int16(v)): the low 16 bits, low byte first
WriteInt16(v) == << (v % 65536) % 256, (v % 65536) \div 256 >>

\* writer.WriteByte(byte(v)): the low 8 bits
WriteByte(v) == << v % 256 >>

Written(bytes) == [out |-> bytes, err |-> "nil"]

RECURSIVE Concat(_, _, _)
\* the bytes of the blocks lo..hi, in order
Concat(blocks, lo, hi) ==
    IF lo > hi THEN <<>>
    ELSE IF lo = hi THEN blocks[lo].out
    ELSE LET mid == (lo + hi) \div 2 IN
         Concat(blocks, lo, mid) \o Concat(blocks, mid + 1, hi)

\* Writes in sequence, one block per step or per item of a loop, that return at the first
\* error: the bytes written up to there, and the error
WriteEach(blocks) ==
    LET failed == {i \in 1..Len(blocks) : blocks[i].err # "nil"}
        last == IF failed = {} THEN Len(blocks)
                ELSE CHOOSE i \in failed : \A j \in failed : i <= j
    IN [out |-> Concat(blocks, 1, last),
        err |-> IF failed = {} THEN "nil" ELSE blocks[last].err]

\* probeLayer returning the environment tileset type for a layer without occupied tile
probeLayer_EmptyIsEnvironment(layer) ==
    LET occupied == {i \in 1..Len(layer.Tiles) : layer.Tiles[i].Index > 0} IN
    IF occupied = {} THEN ENVIRONMENT_TILESET
    ELSE layer.Tiles[CHOOSE i \in occupied : \A j \in occupied : i <= j].TileSet

\* probeLayer: the tileset type of the first occupied tile. The tileset type of a layer
\* without one is DECORATION1_TILESET, which decoder.go spells DECORATION_TILESET.
probeLayer(layer) ==
    LET occupied == {i \in 1..Len(layer.Tiles) : layer.Tiles[i].Index > 0} IN
    IF occupied = {} THEN DECORATION_TILESET
    ELSE layer.Tiles[CHOOSE i \in occupied : \A j \in occupied : i <= j].TileSet

\* encodeLayer: the tileset type, then the flags and the id of every tile
encodeLayer(layer) ==
    LET tilesetType == probeLayer(layer)
        failed == {i \in 1..Len(layer.Tiles) :
                     \/ layer.Tiles[i].Index > 0 /\ layer.Tiles[i].TileSet # tilesetType
                     \/ layer.Tiles[i].Index < 0 \/ layer.Tiles[i].Index > 255}
        n == IF failed = {} THEN Len(layer.Tiles)
             ELSE (CHOOSE i \in failed : \A j \in failed : i <= j) - 1
    IN [out |-> WriteByte(tilesetType) \o
                [k \in 1..(2 * n) |->
                   IF k % 2 = 1 THEN layer.Tiles[(k + 1) \div 2].Flags % 256
                   ELSE layer.Tiles[k \div 2].Index % 256],
        err |-> IF failed = {} THEN "nil" ELSE "error"]

\* encodeObjectLayer of a nil layer: the decoded tilemap has no object layers
encodeObjectLayer == Written(WriteInt16(0))

encodeResourcePoint(resource) ==
    Written(WriteInt16(resource.SpawnX) \o WriteInt16(resource.SpawnY)
            \o WriteByte(resource.ResourcePointFlags))

encodeWaterdropSource(source) ==
    Written(WriteInt16(source.SpawnX) \o WriteInt16(source.SpawnY)
            \o WriteByte(source.WaterdropFlags))

encodeBuilding(building) ==
    IF building.Type < 0 \/ building.Type > 255 THEN [out |-> <<>>, err |-> "error"]
    ELSE Written(WriteByte(building.Type) \o WriteInt16(building.SpawnX)
                 \o WriteInt16(building.SpawnY) \o WriteByte(building.Flags))

encodeBuildings(player) ==
    LET buildingCount == Len(player.Buildings) IN
    IF buildingCount < 0 \/ buildingCount > 255 THEN [out |-> <<>>, err |-> "error"]
    ELSE WriteEach(<< Written(WriteByte(buildingCount)),
                    WriteEach([i \in 1..buildingCount |-> encodeBuilding(player.Buildings[i])]) >>)

encodeUnit(unit) ==
    IF unit.Type < 0 \/ unit.Type > 255 THEN [out |-> <<>>, err |-> "error"]
    ELSE Written(WriteByte(unit.Type) \o WriteInt16(unit.SpawnX) \o WriteInt16(unit.SpawnY))

encodeUnits(player) ==
    LET unitCount == Len(player.Units) IN
    IF unitCount < 0 \/ unitCount > 255 THEN [out |-> <<>>, err |-> "error"]
    ELSE WriteEach(<< Written(WriteByte(unitCount)),
                    WriteEach([i \in 1..unitCount |-> encodeUnit(player.Units[i])]) >>)

encodePlayer(player) == WriteEach(<< encodeBuildings(player), encodeUnits(player) >>)

encodeBorderLine(borderLine) ==
    Written(WriteInt16(borderLine.StartX) \o WriteInt16(borderLine.StartY)
            \o WriteInt16(borderLine.Length))

encodeBorderLines(lines) == WriteEach([i \in 1..Len(lines) |-> encodeBorderLine(lines[i])])

\* encodeBorders with the buckets Right and Left exchanged
encodeBorders_RightFirst(b) ==
    WriteEach(<< Written(WriteInt16(Len(b.Right))), Written(WriteInt16(Len(b.Left))),
               Written(WriteInt16(Len(b.Up))), Written(WriteInt16(Len(b.Down))),
               Written(WriteInt16(Len(b.UpLeft))), Written(WriteInt16(Len(b.UpRight))),
               Written(WriteInt16(Len(b.DownLeft))), Written(WriteInt16(Len(b.DownRight))),
               encodeBorderLines(b.Right), encodeBorderLines(b.Left),
               encodeBorderLines(b.Up), encodeBorderLines(b.Down),
               encodeBorderLines(b.UpLeft), encodeBorderLines(b.UpRight),
               encodeBorderLines(b.DownLeft), encodeBorderLines(b.DownRight) >>)

encodeBorders(b) ==
    WriteEach(<< Written(WriteInt16(Len(b.Left))), Written(WriteInt16(Len(b.Right))),
               Written(WriteInt16(Len(b.Up))), Written(WriteInt16(Len(b.Down))),
               Written(WriteInt16(Len(b.UpLeft))), Written(WriteInt16(Len(b.UpRight))),
               Written(WriteInt16(Len(b.DownLeft))), Written(WriteInt16(Len(b.DownRight))),
               encodeBorderLines(b.Left), encodeBorderLines(b.Right),
               encodeBorderLines(b.Up), encodeBorderLines(b.Down),
               encodeBorderLines(b.UpLeft), encodeBorderLines(b.UpRight),
               encodeBorderLines(b.DownLeft), encodeBorderLines(b.DownRight) >>)

\* the layer blocks in the order written: for i := len(tilemap.Layers) - 1; i >= 0; i--
encodeLayers(ls) == WriteEach([k \in 1..Len(ls) |-> encodeLayer(ls[Len(ls) + 1 - k])])

\* environmentLayerIdx = len(tilemap.Layers) - 1 - environmentLayerIdx
ReversedIdx(ls, idx) == Len(ls) - 1 - idx

\* Encode(writer, order, tilemap, resourcePoints, waterdropSources, players, borders)
Encode(w, h, ls, resourcePoints, sources, ps, b) ==
    LET environmentLayerIdx == GetLayer(ls, "environment") IN
    WriteEach(<<
       Written(WriteByte(165) \o WriteByte(2)),
       Written(WriteInt16(w)),
       Written(WriteInt16(h)),
       Written(WriteByte(Len(ls))),
       IF environmentLayerIdx.err # "nil" THEN [out |-> <<>>, err |-> "error"]
       ELSE Written(WriteByte(ReversedIdx(ls, environmentLayerIdx.idx))),
       encodeLayers(ls),
       Written(WriteByte(170)),
       encodeObjectLayer,
       encodeObjectLayer,
       Written(WriteByte(153)),
       IF Len(resourcePoints) > 255 THEN [out |-> <<>>, err |-> "error"]
       ELSE Written(WriteByte(Len(resourcePoints))),
       WriteEach([i \in 1..Len(resourcePoints) |-> encodeResourcePoint(resourcePoints[i])]),
       Written(WriteByte(90)),
       IF Len(sources) > 255 THEN [out |-> <<>>, err |-> "error"]
       ELSE Written(WriteByte(Len(sources))),
       WriteEach([i \in 1..Len(sources) |-> encodeWaterdropSource(sources[i])]),
       Written(WriteByte(255)),
       Written(WriteByte(Len(ps))),
       WriteEach([i \in 1..Len(ps) |-> encodePlayer(ps[i])]),
       Written(WriteByte(165)),
       encodeBorders(b),
       Written(WriteByte(85)) >>)

----------------------------------------------------------------------------
(* Run, from the creation of the output file on *)

\* os.Remove(targetFile) and os.Create(targetFile): either can fail
RunCreateFile ==
    /\ pc = "CreateFile"
    /\ \E created \in BOOLEAN :
          IF created
          THEN /\ file' = "created" /\ pc' = "Encode" /\ err' = "nil"
          ELSE /\ file' = file /\ pc' = "done" /\ err' = "error"
    /\ UNCHANGED <<width, height, layers, borders, resources, waterdropSources, players,
                   decoded, input, out>>

\* bufio.NewWriter(file): the writer hands its bytes to the file whenever BufferSize of
\* them are pending, and at Flush
BufferSize == 4096

\* What the writes to the file do: all succeed, one fails while Encode runs, or the
\* one of the final Flush fails
Sinks == {"ok", "failsInEncode", "failsAtFlush"}

\* Encode on the buffered writer of the file, os.Remove on an error, Flush otherwise.
\* A failed write to the file stays in the writer: WriteByte drops it, the next
\* binary.Write returns it, and Encode ends with binary.Write calls followed by one
\* WriteByte. The error of Flush and the error of os.Remove are dropped; os.Remove runs
\* while the file is open, which removes the file or fails, by the platform.
RunEncode ==
    /\ pc = "Encode"
    /\ \E r \in {Encode(width, height, layers, resources, waterdropSources, players, borders)} :
       \E sink \in Sinks, removed \in BOOLEAN :
          IF r.err # "nil"
          THEN /\ out' = r.out
               /\ err' = r.err
               /\ file' = IF removed THEN "removed" ELSE "partial"
          ELSE IF sink = "failsInEncode" /\ Len(r.out) > BufferSize + 1
          THEN /\ out' = SubSeq(r.out, 1, BufferSize)
               /\ err' = "error"
               /\ file' = IF removed THEN "removed" ELSE "partial"
          ELSE /\ out' = r.out
               /\ err' = "nil"
               /\ file' = IF sink = "failsAtFlush" THEN "partial" ELSE "written"
    /\ pc' = "done"
    /\ UNCHANGED <<width, height, layers, borders, resources, waterdropSources, players,
                   decoded, input>>

\* The state Run has reached when it creates the file: ExtractSpawnInfo and ComputeBorder
\* have returned without an error on the decoded layers ls
BeforeCreateFile(w, h, ls) ==
    LET spawnLayerIdx == GetLayer(ls, "spawn")
        r == ExtractSpawnInfoFromLayer(w, h, ls[spawnLayerIdx.idx + 1])
        rest == RemoveLayer(ls, spawnLayerIdx.idx)
        environmentLayerIdx == GetLayer(rest, "environment")
        b == ComputeBorderOfLayer(w, h, rest[environmentLayerIdx.idx + 1])
    IN  IF spawnLayerIdx.err # "nil" THEN [err |-> "error"]
        ELSE IF r.err # "nil" THEN [err |-> r.err]
        ELSE IF environmentLayerIdx.err # "nil" THEN [err |-> "error"]
        ELSE IF b.err # "nil" THEN [err |-> b.err]
        ELSE [err |-> "nil", Width |-> w, Height |-> h, Layers |-> rest, decoded |-> ls,
              resources |-> r.resources, waterdropSources |-> r.waterdrops,
              players |-> r.players, borders |-> b.borders]

----------------------------------------------------------------------------
(* Inputs of the encoder *)

\* layers as wide as the widest map the model encodes
WideWidth == 40000

\* the number of layers of the deepest map the model encodes
ManyLayers == 258

DecorationTile(id, flags) == Tile(id, flags, DECORATION_TILESET)

\* The tiles an edit of a decoration layer can place
DecorationTiles == {EmptyTile, SolidTile, DecorationTile(120, 5), DecorationTile(300, 0)}

DecorationLayers(n, edits) ==
    {[Name |-> "decoration", Tiles |-> g] :
        g \in Edited([i \in 1..n |-> DecorationTile(105, 0)], DecorationTiles, edits)}
    \cup {[Name |-> "decoration", Tiles |-> [i \in 1..n |-> EmptyTile]]}

\* The layer lists of a map file: the spawn layer and the environment layer among
\* decoration layers
EncodedLayerLists(e, sp, d) ==
    { <<e, sp>>, <<sp, e>>, <<d, sp, e>>, <<e, d, sp>>, <<sp, d, e, d>>, <<d, e, d, d, sp>> }

\* a map of ManyLayers layers: the environment layer below or above the decoration layers
DeepLayerLists(e, sp, d) ==
    { <<sp, e>> \o [i \in 1..(ManyLayers - 2) |-> d],
      <<sp>> \o [i \in 1..(ManyLayers - 2) |-> d] \o <<e>> }

\* The tilesets of the map files: every tile id the layers use lies in one tileset
MapTilesets ==
    << TileSet(1, "environment", 9), TileSet(10, "spawn", 30), TileSet(49, "environment", 48),
       TileSet(100, "decoration", 50), TileSet(162, "spawn", 100),
       TileSet(262, "decoration", 48), TileSet(310, "environment", 48) >>

\* the map file Tiled writes for the layers ls
FileOf(w, h, ls) ==
    TileMapOf(ValidHeader(w, h), MapTilesets,
              [i \in DOMAIN ls |-> RawLayer(ls[i].Name, ls[i].Tiles)])

MapFile(w, h, ls, wide) == [Width |-> w, Height |-> h, Layers |-> ls, wide |-> wide]

\* the map files of a spawn layout and an environment layer with the decoration layers ds
MapFilesOf(layout, env, ds) ==
    { MapFile(layout.w, Len(layout.tiles) \div layout.w, ls, 0) :
        ls \in UNION { EncodedLayerLists([Name |-> "environment", Tiles |-> env],
                                         [Name |-> "spawn", Tiles |-> layout.tiles], d) :
                         d \in ds } }

\* Every spawn layout over every environment layer with a full and an empty decoration
\* layer, and the closed map with every decoration layer
SmallMaps(edits) ==
    UNION { MapFilesOf(layout, env, DecorationLayers(Len(layout.tiles), 0)) :
              layout \in SpawnLayouts,
              env \in BaseMaps(3, 3) \cup {[i \in 1..9 |-> Tile(310, 0, ENVIRONMENT_TILESET)]} }
    \cup UNION { MapFilesOf(layout, ClosedMap(3, 3), DecorationLayers(Len(layout.tiles), edits)) :
                   layout \in {l \in SpawnLayouts : l.tiles[1] = PlayerToken(0, 0)} }

DeepMaps ==
    UNION { { MapFile(layout.w, Len(layout.tiles) \div layout.w, ls, 0) :
                ls \in DeepLayerLists([Name |-> "environment", Tiles |-> ClosedMap(3, 3)],
                                      [Name |-> "spawn", Tiles |-> layout.tiles],
                                      [Name |-> "decoration",
                                       Tiles |-> [i \in 1..9 |-> DecorationTile(105, 0)]]) } :
            layout \in SpawnLayouts }

\* the occupied cells of the spawn layer of a wide map, at the left end of its one row
WideRow == << PlayerToken(0, 0), BaseTile(0), ResourceTile(0), PlayerToken(1, 0), BaseTile(0) >>

\* the layers of a map of one row of w solid tiles
WideLayers(w) ==
    << [Name |-> "environment", Tiles |-> [i \in 1..w |-> SolidTile]],
       [Name |-> "spawn",
        Tiles |-> [i \in 1..w |-> IF i <= Len(WideRow) THEN WideRow[i] ELSE EmptyTile]] >>

WideMaps ==
    {MapFile(Len(WideRow), 1, WideLayers(Len(WideRow)), w) : w \in {WideWidth, 32767}}

\* The state of Run for a map of one row widened to wide columns. The added cells are
\* empty in the spawn layer and the scan passes over them, and a row of solid tiles has
\* no border: the extracted results are those of the narrow map.
Widened(m, wide) ==
    IF wide = 0 \/ m.err # "nil" THEN m
    ELSE [m EXCEPT !.Width = wide,
                   !.Layers = <<WideLayers(wide)[1]>>,
                   !.decoded = WideLayers(wide)]

\* Run at os.Create, for every map file that LoadTilesFile decodes and ValidateTileMap
\* accepts; the history of the decoded layers is not kept from here on.
InitEncode ==
    /\ \E m \in {Widened(BeforeCreateFile(f.Width, f.Height, f.Layers), f.wide) :
                   f \in SmallMaps(MaxEdits) \cup DeepMaps \cup WideMaps} :
          /\ m.err = "nil"
          /\ \E tmx \in {FileOf(m.Width, m.Height, m.decoded)} :
                /\ LoadTilesFile(tmx, 64) = [Layers |-> m.decoded, err |-> "nil"]
                /\ ValidateTileMap(tmx) = "nil"
          /\ width = m.Width /\ height = m.Height /\ layers = m.Layers
          /\ resources = m.resources
          /\ waterdropSources = m.waterdropSources /\ players = m.players
          /\ borders = m.borders
    /\ pc = "CreateFile" /\ err = "nil"
    /\ decoded = <<>> /\ input = <<>> /\ out = <<>> /\ file = "absent"

NextEncode == RunCreateFile \/ RunEncode

SpecEncode == InitEncode /\ [][NextEncode]_vars

----------------------------------------------------------------------------
(* Properties of the border extractor, stated on the environment layer *)

Range(seq) == {seq[j] : j \in 1..Len(seq)}

BorderDone == pc = "done" /\ err = "nil"

InGrid(x, y) == x >= 0 /\ x < width /\ y >= 0 /\ y < height

\* the tile of the environment layer at (x, y)
CellAt(x, y) == layers[1].Tiles[y * width + x + 1]

ShapeAt(x, y) == GetType(CellAt(x, y))

\* shared cardinal edge: the tile at (tx, ty) has a border toward side and its
\* neighbour at (nx, ny) has none toward the opposite side
SharedCardinalEdge(tx, ty, side, nx, ny, opposite) ==
    /\ InGrid(tx, ty)
    /\ InGrid(nx, ny)
    /\ Tile_HasBorderTowards(CellAt(tx, ty), side)
    /\ ~Tile_HasBorderTowards(CellAt(nx, ny), opposite)

\* the unit edges below row y-1 / above row y at column x, and left of column x / right
\* of column x-1 at row y, as each bucket sees them
RightEdge(x, y) == SharedCardinalEdge(x, y, UP, x, y - 1, DOWN)
LeftEdge(x, y) == SharedCardinalEdge(x, y - 1, DOWN, x, y, UP)
UpEdge(x, y) == SharedCardinalEdge(x, y, LEFT, x - 1, y, RIGHT)
DownEdge(x, y) == SharedCardinalEdge(x - 1, y, RIGHT, x, y, LEFT)

\* C1: every cardinal segment covers only shared cardinal edges of its bucket: Right
\* segments lie on cells bordering Up whose upper neighbour does not border Down, Left
\* segments below cells bordering Down, Up segments on cells bordering Left, Down segments
\* right of cells bordering Right.
C1_CardinalSegmentsSound ==
    BorderDone =>
        /\ \A s \in Range(borders.Right) : \A k \in 0..(s.Length - 1) :
              RightEdge(s.StartX + k, s.StartY)
        /\ \A s \in Range(borders.Left) : \A k \in 1..s.Length :
              LeftEdge(s.StartX - k, s.StartY)
        /\ \A s \in Range(borders.Up) : \A k \in 1..s.Length :
              UpEdge(s.StartX, s.StartY - k)
        /\ \A s \in Range(borders.Down) : \A k \in 0..(s.Length - 1) :
              DownEdge(s.StartX, s.StartY + k)

\* C1 witness: all four cardinal buckets hold a segment, one of them of length 2 or
\* more, and a diagonal tile carries a Right segment.
C1_Witness ==
    /\ BorderDone
    /\ borders.Left # <<>> /\ borders.Up # <<>> /\ borders.Down # <<>>
    /\ \E s \in Range(borders.Left) : s.Length >= 2
    /\ \E s \in Range(borders.Right) : IsDiagonal(CellAt(s.StartX, s.StartY))

\* the segments of a bucket that cover the unit edge at (x, y)
CoveringRight(x, y) ==
    {j \in 1..Len(borders.Right) :
        LET s == borders.Right[j] IN s.StartY = y /\ s.StartX <= x /\ x < s.StartX + s.Length}
CoveringLeft(x, y) ==
    {j \in 1..Len(borders.Left) :
        LET s == borders.Left[j] IN s.StartY = y /\ s.StartX - s.Length <= x /\ x < s.StartX}
CoveringUp(x, y) ==
    {j \in 1..Len(borders.Up) :
        LET s == borders.Up[j] IN s.StartX = x /\ s.StartY - s.Length <= y /\ y < s.StartY}
CoveringDown(x, y) ==
    {j \in 1..Len(borders.Down) :
        LET s == borders.Down[j] IN s.StartX = x /\ s.StartY <= y /\ y < s.StartY + s.Length}

\* the unit edges the sweeps account for
HorizontalEdges == (1..(width - 2)) \X (1..(height - 1))
VerticalEdges == (1..(width - 1)) \X (1..(height - 2))

\* C2: every shared cardinal edge inside the scanned range is covered by exactly one
\* segment of its bucket, and no segment is adjacent on its scan line to a further
\* qualifying edge of its bucket (segments are maximal runs, none is lost at a line's end).
C2_CardinalSegmentsComplete ==
    BorderDone =>
        /\ \A e \in HorizontalEdges :
              /\ RightEdge(e[1], e[2]) => Cardinality(CoveringRight(e[1], e[2])) = 1
              /\ LeftEdge(e[1], e[2]) => Cardinality(CoveringLeft(e[1], e[2])) = 1
        /\ \A e \in VerticalEdges :
              /\ UpEdge(e[1], e[2]) => Cardinality(CoveringUp(e[1], e[2])) = 1
              /\ DownEdge(e[1], e[2]) => Cardinality(CoveringDown(e[1], e[2])) = 1
        /\ \A s \in Range(borders.Right) : \A x \in {s.StartX - 1, s.StartX + s.Length} :
              ~(<<x, s.StartY>> \in HorizontalEdges /\ RightEdge(x, s.StartY))
        /\ \A s \in Range(borders.Left) : \A x \in {s.StartX - s.Length - 1, s.StartX} :
              ~(<<x, s.StartY>> \in HorizontalEdges /\ LeftEdge(x, s.StartY))
        /\ \A s \in Range(borders.Up) : \A y \in {s.StartY - s.Length - 1, s.StartY} :
              ~(<<s.StartX, y>> \in VerticalEdges /\ UpEdge(s.StartX, y))
        /\ \A s \in Range(borders.Down) : \A y \in {s.StartY - 1, s.StartY + s.Length} :
              ~(<<s.StartX, y>> \in VerticalEdges /\ DownEdge(s.StartX, y))

\* C2 witness: a Right run reaches the last scanned column (its edge at x = width-2
\* qualifies) and a Left run of the same row ends before it.
C2_Witness ==
    /\ BorderDone
    /\ width >= 4
    /\ \E y \in 1..(height - 1) :
          /\ RightEdge(width - 2, y)
          /\ CoveringRight(width - 2, y) # {}
          /\ \E s \in Range(borders.Left) : s.StartY = y /\ s.StartX < width - 1

\* C3: every cardinal segment has length >= 1 and both of its end points lie in
\* [1, W-1] x [1, H-1].
C3_CardinalSegmentsInRange ==
    BorderDone =>
        LET InBox(x, y) == 1 <= x /\ x <= width - 1 /\ 1 <= y /\ y <= height - 1 IN
        /\ \A s \in Range(borders.Right) :
              s.Length >= 1 /\ InBox(s.StartX, s.StartY) /\ InBox(s.StartX + s.Length, s.StartY)
        /\ \A s \in Range(borders.Left) :
              s.Length >= 1 /\ InBox(s.StartX, s.StartY) /\ InBox(s.StartX - s.Length, s.StartY)
        /\ \A s \in Range(borders.Up) :
              s.Length >= 1 /\ InBox(s.StartX, s.StartY) /\ InBox(s.StartX, s.StartY - s.Length)
        /\ \A s \in Range(borders.Down) :
              s.Length >= 1 /\ InBox(s.StartX, s.StartY) /\ InBox(s.StartX, s.StartY + s.Length)

\* C3 witness: the outer ring holds a diagonal tile and an empty tile, and segments
\* reach the corners (1, 1) and (W-1, H-1) of the box.
C3_Witness ==
    /\ BorderDone
    /\ \E x \in 0..(width - 1) : IsDiagonal(CellAt(x, 0)) \/ IsCompletelyAccessible(CellAt(x, 0))
    /\ \E s \in Range(borders.Down) : s.StartY + s.Length = height - 1
    /\ \E s \in Range(borders.Right) : s.StartX + s.Length = width - 1
    /\ \E s \in Range(borders.Up) : s.StartY - s.Length = 1

\* a maximal run of L cells of one shape along the diagonal going down-right from (x, y)
RunDown(x, y, L, shape) ==
    /\ \A j \in 0..(L - 1) : InGrid(x + j, y + j) /\ ShapeAt(x + j, y + j) = shape
    /\ ~(InGrid(x - 1, y - 1) /\ ShapeAt(x - 1, y - 1) = shape)
    /\ ~(InGrid(x + L, y + L) /\ ShapeAt(x + L, y + L) = shape)

\* a maximal run of L cells of one shape along the diagonal going up-right from (x, y)
RunUp(x, y, L, shape) ==
    /\ \A j \in 0..(L - 1) : InGrid(x + j, y - j) /\ ShapeAt(x + j, y - j) = shape
    /\ ~(InGrid(x - 1, y + 1) /\ ShapeAt(x - 1, y + 1) = shape)
    /\ ~(InGrid(x + L, y - L) /\ ShapeAt(x + L, y - L) = shape)

\* the number of entries of a bucket equal to a segment
Count(bucket, segment) == Cardinality({j \in 1..Len(bucket) : bucket[j] = segment})

RunStarts == (0..(width - 1)) \X (0..(height - 1)) \X (1..(width + height))

C5_DiagonalSegmentsSound ==
    BorderDone =>
        /\ \A s \in Range(borders.DownRight) : \A k \in 0..(s.Length - 1) :
              /\ InGrid(s.StartX + k, s.StartY + k)
              /\ ShapeAt(s.StartX + k, s.StartY + k) = SOLID_AT_LOWER_LEFT
        /\ \A s \in Range(borders.UpLeft) : \A k \in 1..s.Length :
              /\ InGrid(s.StartX - k, s.StartY - k)
              /\ ShapeAt(s.StartX - k, s.StartY - k) = SOLID_AT_UPPER_RIGHT
        /\ \A s \in Range(borders.UpRight) : \A k \in 0..(s.Length - 1) :
              /\ InGrid(s.StartX + k, s.StartY - 1 - k)
              /\ ShapeAt(s.StartX + k, s.StartY - 1 - k) = SOLID_AT_LOWER_RIGHT
        /\ \A s \in Range(borders.DownLeft) : \A k \in 1..s.Length :
              /\ InGrid(s.StartX - k, s.StartY - 1 + k)
              /\ ShapeAt(s.StartX - k, s.StartY - 1 + k) = SOLID_AT_UPPER_LEFT

\* C5 witness: a DownRight and an UpRight segment of length 2 or more, next to a
\* segment of a third diagonal bucket.
C5_Witness ==
    /\ BorderDone
    /\ \E s \in Range(borders.DownRight) : s.Length >= 2
    /\ \E s \in Range(borders.UpRight) : s.Length >= 2
    /\ borders.UpLeft # <<>> \/ borders.DownLeft # <<>>

\* C6: the start of every diagonal segment lies in [1, W-1] x [1, H-1].
C6_DiagonalStartsInRange ==
    BorderDone =>
        \A s \in Range(borders.UpLeft) \cup Range(borders.UpRight)
                 \cup Range(borders.DownLeft) \cup Range(borders.DownRight) :
            /\ 1 <= s.StartX /\ s.StartX <= width - 1
            /\ 1 <= s.StartY /\ s.StartY <= height - 1

----------------------------------------------------------------------------
(* Properties of the spawn extractor *)

SpawnDone == pc = "done" /\ \E i \in 1..Len(decoded) : decoded[i].Name = "spawn"

\* the spawn layer as it was decoded
SpawnLayer == decoded[CHOOSE i \in 1..Len(decoded) : decoded[i].Name = "spawn"]

SpawnAt(c) == SpawnLayer.Tiles[c[2] * width + c[1] + 1]

Cells == (0..(width - 1)) \X (0..(height - 1))

TokenCells(p) == {c \in Cells : SpawnAt(c).Index = 10 + p * 10 + (p \div 2) * 20}

AllTokenCells == UNION {TokenCells(p) : p \in 0..7}

\* the cell the right-vector of the token at c points to
BuildingCell(c) ==
    LET v == GetRightVector(SpawnAt(c)) IN <<c[1] + v[1], c[2] + v[2]>>

BuildingTypeOf(id) ==
    CASE id = 162 -> 1
      [] id = 234 -> 2
      [] id = 238 -> 4
      [] OTHER -> 0

\* the player slots with a token on the layer, and the place of slot p among them
TokenSlots == {p \in 0..7 : TokenCells(p) # {}}

Rank(p, slots) == Cardinality({q \in slots : q < p}) + 1

OddPopCount(flags) == ((flags % 2) + ((flags \div 2) % 2) + ((flags \div 4) % 2)) % 2 = 1

\* C7: whenever extraction succeeds, the building list of player p holds exactly one
\* building per token tile of p, and for a token at (x, y) with flags f it is
\* (type, x, y, f), type being the building type of the cell at (x+rx, y+ry), a cell of
\* the grid with flags f; and extraction does not succeed if that cell is empty, has
\* other flags or carries no building-type id.
C7_BuildingResolution ==
    SpawnDone =>
       /\ err = "nil" =>
            /\ Len(players) = Cardinality(TokenSlots)
            /\ \A p \in TokenSlots :
                 LET bl == players[Rank(p, TokenSlots)].Buildings IN
                 /\ Len(bl) = Cardinality(TokenCells(p))
                 /\ \A c \in TokenCells(p) :
                      LET f == SpawnAt(c).Flags
                          n == BuildingCell(c)
                      IN /\ n \in Cells
                         /\ SpawnAt(n).Flags = f
                         /\ BuildingTypeOf(SpawnAt(n).Index) # 0
                         /\ \E j \in 1..Len(bl) :
                              bl[j] = [Type |-> BuildingTypeOf(SpawnAt(n).Index),
                                       SpawnX |-> c[1], SpawnY |-> c[2], Flags |-> f]
       /\ (\E c \in AllTokenCells :
             /\ BuildingCell(c) \in Cells
             /\ \/ SpawnAt(BuildingCell(c)).Index = 0
                \/ SpawnAt(BuildingCell(c)).Flags # SpawnAt(c).Flags
                \/ BuildingTypeOf(SpawnAt(BuildingCell(c)).Index) = 0)
          => err # "nil"

\* the non-mirrored tokens whose building cell is not a cell of the grid
OffGridTokens ==
    {c \in AllTokenCells : ~OddPopCount(SpawnAt(c).Flags) /\ BuildingCell(c) \notin Cells}

\* C8: if a non-mirrored player token of the spawn layer has its building cell outside
\* the grid, ExtractSpawnInfoFromLayer returns an error: it does not end in a runtime
\* fault and does not pair the token with a cell of another row.
C8_OffGridTokenIsAnError ==
    SpawnDone /\ OffGridTokens # {} => err = "error"

BaseCount(p) == Cardinality({j \in 1..Len(p.Buildings) : p.Buildings[j].Type = 1})

\* C9: after a completed scan ExtractSpawnInfoFromLayer returns an error if no resource
\* point was found, if one of the 8 slots has no Base but a unit or a building, or if
\* fewer than 2 slots have a Base; otherwise it succeeds and returns exactly the slots
\* with a Base, in ascending order, each with all its scanned buildings and units: at
\* least 2 players, each with a Base, and at least 1 resource point.
C9_PostPassValidation ==
    LET scan == ScanSpawnLayer(width, height, SpawnLayer)
        live == {i \in 1..8 : BaseCount(scan.players[i]) >= 1}
        fatal == \/ Len(scan.resources) = 0
                 \/ \E i \in 1..8 : /\ BaseCount(scan.players[i]) = 0
                                    /\ \/ Len(scan.players[i].Units) > 0
                                       \/ Len(scan.players[i].Buildings) > 0
                 \/ Cardinality(live) < 2
    IN
    SpawnDone /\ scan.err = "nil" =>
       /\ fatal => err = "error"
       /\ ~fatal =>
            /\ err = "nil"
            /\ Len(players) = Cardinality(live)
            /\ \A i \in live : players[Rank(i, live)] = scan.players[i]
            /\ \A k \in 1..Len(players) : BaseCount(players[k]) >= 1
            /\ Len(players) >= 2
            /\ resources = scan.resources
            /\ Len(resources) >= 1

\* The scan completes, players 0 and 2 have a Base and player 1 has nothing: the two are
\* returned as the first and the second player.
C9_Witness ==
    LET scan == ScanSpawnLayer(width, height, SpawnLayer) IN
    /\ SpawnDone /\ scan.err = "nil" /\ err = "nil"
    /\ scan.players[2] = NewPlayer
    /\ BaseCount(scan.players[3]) = 1
    /\ Len(players) = 2
    /\ players[2] = scan.players[3]

ResourceCells == {c \in Cells : SpawnAt(c).Index = 173}
WaterdropCells == {c \in Cells : SpawnAt(c).Index = 177}
UnitCells ==
    {c \in Cells : \E p \in 0..7, o \in {0, 2, 4, 6, 8} :
                      SpawnAt(c).Index = 1 + p * 10 + (p \div 2) * 20 + o}

\* C10: ExtractSpawnInfoFromLayer returns an error whenever the spawn layer holds a
\* mirrored resource-point tile, a mirrored player token or a unit tile with flags other
\* than 0; on success every resource point and every token is recorded with its flags,
\* and every water-drop tile is recorded as (x, y, flags) whatever its flags.
C10_OrientationRules ==
    SpawnDone =>
       /\ (\E c \in ResourceCells \cup AllTokenCells : OddPopCount(SpawnAt(c).Flags))
          => err = "error"
       /\ (\E c \in UnitCells : SpawnAt(c).Flags # 0) => err = "error"
       /\ err = "nil" =>
            /\ Len(resources) = Cardinality(ResourceCells)
            /\ \A c \in ResourceCells :
                 /\ SpawnAt(c).Flags \in {0, 3, 5, 6}
                 /\ \E j \in 1..Len(resources) :
                      resources[j] = [SpawnX |-> c[1], SpawnY |-> c[2],
                                      ResourcePointFlags |-> SpawnAt(c).Flags]
            /\ \A c \in AllTokenCells :
                 /\ SpawnAt(c).Flags \in {0, 3, 5, 6}
                 /\ \E k \in 1..Len(players) : \E j \in 1..Len(players[k].Buildings) :
                      LET b == players[k].Buildings[j] IN
                      b.SpawnX = c[1] /\ b.SpawnY = c[2] /\ b.Flags = SpawnAt(c).Flags
            /\ Len(waterdropSources) = Cardinality(WaterdropCells)
            /\ \A c \in WaterdropCells :
                 \E j \in 1..Len(waterdropSources) :
                    waterdropSources[j] = [SpawnX |-> c[1], SpawnY |-> c[2],
                                           WaterdropFlags |-> SpawnAt(c).Flags]

\* C11: if ExtractSpawnInfoFromLayer succeeds, every non-empty tile of the spawn layer,
\* the building-type cells paired with a token included, belongs to a tileset of kind
\* Spawn: a non-empty Environment or Decoration tile makes extraction fail.
C11_SpawnTilesetOnly ==
    SpawnDone /\ err = "nil" =>
       \A c \in Cells : SpawnAt(c).Index # 0 => SpawnAt(c).TileSet = SPAWN_TILESET

\* A token points to a Base tile with the token's flags that is not of the spawn
\* tileset, and extraction returned an error.
C11_Witness ==
    /\ SpawnDone /\ err = "error"
    /\ \E c \in AllTokenCells :
          /\ BuildingCell(c) \in Cells
          /\ SpawnAt(BuildingCell(c)).Index = 162
          /\ SpawnAt(BuildingCell(c)).Flags = SpawnAt(c).Flags
          /\ SpawnAt(BuildingCell(c)).TileSet \in {ENVIRONMENT_TILESET, DECORATION_TILESET}
    /\ \A c \in Cells : SpawnAt(c).Index # 162 => ~SpawnTileSetError(SpawnAt(c))

SpawnLayerPlaces == {i \in 1..Len(decoded) : decoded[i].Name = "spawn"}

\* C12: after a successful ExtractSpawnInfo the layer list is the decoded list without
\* the one layer named spawn, the other layers unchanged and in their order, one layer
\* fewer; after a failed call (spawn layer missing or twice, or an extraction error)
\* the layer list is the decoded list.
C12_SpawnLayerRemoval ==
    pc = "done" =>
       IF err = "nil"
       THEN /\ Cardinality(SpawnLayerPlaces) = 1
            /\ Len(layers) = Len(decoded) - 1
            /\ \A i \in 1..Len(decoded) :
                 /\ i \notin SpawnLayerPlaces /\ (\A j \in SpawnLayerPlaces : i < j)
                       => layers[i] = decoded[i]
                 /\ i \notin SpawnLayerPlaces /\ (\A j \in SpawnLayerPlaces : i > j)
                       => layers[i - 1] = decoded[i]
       ELSE /\ layers = decoded
            /\ Cardinality(SpawnLayerPlaces) # 1 => err = "error"

\* The spawn layer was between two other layers and has been removed.
C12_Witness ==
    /\ pc = "done" /\ err = "nil"
    /\ Len(decoded) = 3 /\ decoded[2].Name = "spawn"
    /\ layers = <<decoded[1], decoded[3]>>

----------------------------------------------------------------------------
(* Properties of the decoder *)

\* the tileset of kind Spawn is the last of the list, and the spawn layer holds plain
\* tokens whose non-zero ids are ids of that tileset
SpawnLayerOfSpawnTileset(tm) ==
    /\ Len(tm.Tilesets) >= 1
    /\ TileSetTypeOf(tm.Tilesets[Len(tm.Tilesets)].Name) = SPAWN_TILESET
    /\ \A i \in 1..Len(tm.Layers) :
         tm.Layers[i].Name = "spawn" =>
            \A j \in 1..Len(tm.Layers[i].RawData) :
               LET tok == tm.Layers[i].RawData[j]
                   ts == tm.Tilesets[Len(tm.Tilesets)]
               IN /\ tok.num /\ ~tok.neg /\ tok.hi \in {0, 32, 64, 96, 128, 160, 192, 224}
                  /\ tok.lo # 0 => tok.lo >= ts.FirstGid /\ tok.lo < ts.FirstGid + ts.TileCount

\* the file with the spawn tileset's first_gid and the ids of the spawn layer moved by d
ShiftedSpawn(tm, d) ==
    [tm EXCEPT
       !.Tilesets[Len(tm.Tilesets)].FirstGid = @ + d,
       !.Layers = [i \in 1..Len(tm.Layers) |->
                     IF tm.Layers[i].Name # "spawn" THEN tm.Layers[i]
                     ELSE [tm.Layers[i] EXCEPT
                             !.RawData = [j \in 1..Len(tm.Layers[i].RawData) |->
                                            LET tok == tm.Layers[i].RawData[j] IN
                                            IF tok.lo = 0 THEN tok
                                            ELSE [tok EXCEPT !.lo = @ + d]]]]]

\* layer decoding followed by ExtractSpawnInfoFromLayer
SpawnOutcome(tm, intSize) ==
    LET l == LoadTilesFile(tm, intSize) IN
    IF l.err # "nil" \/ GetLayer(l.Layers, "spawn").err # "nil" THEN NoSpawnInfo
    ELSE LET r == ExtractSpawnInfoFromLayer(tm.Width, tm.Height,
                                            l.Layers[GetLayer(l.Layers, "spawn").idx + 1])
         IN IF r.err # "nil" THEN NoSpawnInfo ELSE r

\* C13: two files that differ only in the first_gid of the spawn tileset, every global
\* id of the spawn layer moved by the same amount, give the same outcome of layer decoding
\* and ExtractSpawnInfoFromLayer: the same resources, water-drop sources and players, or
\* a failure in both.
C13_SpawnIdsLocalToTileset ==
    pc = "done" /\ ValidateTileMap(input.TileMap) = "nil"
                /\ SpawnLayerOfSpawnTileset(input.TileMap) =>
       \A d \in {1, 100} :
          LET shifted == SpawnOutcome(ShiftedSpawn(input.TileMap, d), input.IntSize) IN
          IF err = "nil"
          THEN shifted = [resources |-> resources, waterdrops |-> waterdropSources,
                          players |-> players, err |-> "nil"]
          ELSE shifted.err # "nil"

\* the tilesets whose range [FirstGid, FirstGid + TileCount) holds the id
TilesetsHolding(id, Tilesets) ==
    {k \in 1..Len(Tilesets) :
        id >= Tilesets[k].FirstGid /\ id < Tilesets[k].FirstGid + Tilesets[k].TileCount}

SortedAndDisjoint(Tilesets) ==
    \A k \in 1..(Len(Tilesets) - 1) :
       Tilesets[k].FirstGid + Tilesets[k].TileCount <= Tilesets[k + 1].FirstGid

\* the masked ids of the tokens of the file that Atoi accepts
MaskedIds(tm, intSize) ==
    UNION {{ClearTiledFlags(Uint32(tm.Layers[i].RawData[j])) :
               j \in {j \in 1..Len(tm.Layers[i].RawData) :
                        ~AtoiFails(tm.Layers[i].RawData[j], intSize)}} :
           i \in 1..Len(tm.Layers)}

\* C14: with tilesets sorted by first_gid and disjoint, decoding gives every non-zero id
\* that lies in the range of a tileset exactly that tileset and gives id 0 no tileset,
\* and returns an error if a non-zero id lies in no range: below the first tileset, in
\* a gap or past the last range.
C14_TilesetResolution ==
    [][pc = "LoadTilesFile" /\ SortedAndDisjoint(input.TileMap.Tilesets) =>
         /\ err' = "nil" =>
              \A i \in 1..Len(layers') : \A j \in 1..Len(layers'[i].Tiles) :
                 LET tile == layers'[i].Tiles[j]
                     holding == TilesetsHolding(tile.Index, input.TileMap.Tilesets)
                 IN IF tile.Index = 0 THEN tile.TileSet = NoTileSet
                    ELSE /\ Cardinality(holding) = 1
                         /\ \A k \in holding :
                              tile.TileSet = TileSetTypeOf(input.TileMap.Tilesets[k].Name)
         /\ (\E id \in MaskedIds(input.TileMap, input.IntSize) :
               /\ id.hi = 0 /\ id.lo # 0
               /\ TilesetsHolding(id.lo, input.TileMap.Tilesets) = {})
            => err' = "error"
    ]_vars

\* the token is a decimal integer in 0 .. 2^32 - 1
IsUint32(tok) == tok.num /\ tok.hi < 256 /\ (tok.neg => tok.hi = 0 /\ tok.lo = 0)

\* C15: decoding rejects a layer with a token that is no integer in 0 .. 2^32 - 1, with
\* an id above 0xFFFFFF or with a number of tokens other than W x H; on success every
\* layer holds exactly W x H tiles in token order, the flags of a tile being the bits
\* 31, 30, 29 of its token and the id the token with those bits cleared.
C15_LayerDecoding ==
    [][pc = "LoadTilesFile" =>
         LET tm == input.TileMap IN
         /\ (\E i \in 1..Len(tm.Layers) :
               \/ Len(tm.Layers[i].RawData) # tm.Width * tm.Height
               \/ \E j \in 1..Len(tm.Layers[i].RawData) :
                     \/ ~IsUint32(tm.Layers[i].RawData[j])
                     \/ tm.Layers[i].RawData[j].hi % 32 # 0)
            => err' # "nil"
         /\ err' = "nil" =>
              /\ Len(layers') = Len(tm.Layers)
              /\ \A i \in 1..Len(tm.Layers) :
                   /\ Len(layers'[i].Tiles) = tm.Width * tm.Height
                   /\ \A j \in 1..Len(layers'[i].Tiles) :
                        LET tok == tm.Layers[i].RawData[j]
                            tile == layers'[i].Tiles[j]
                        IN /\ tile.Index = tok.lo
                           /\ tile.Flags % 2 = (tok.hi \div 128) % 2
                           /\ (tile.Flags \div 2) % 2 = (tok.hi \div 64) % 2
                           /\ (tile.Flags \div 4) % 2 = (tok.hi \div 32) % 2
                           /\ tile.Flags < 8
    ]_vars

\* C16: ValidateTileMap returns an error if and only if W <= 0, H <= 0, the orientation
\* is not orthogonal, the render order is not right-down, the tile width or height is
\* not 256, the layer count is outside 1..255 or there is no tileset; the version alone
\* never makes it fail.
C16_ValidateTileMap ==
    [][pc = "ValidateTileMap" =>
         LET tm == input.TileMap IN
         (err' = "error") <=>
            \/ tm.Width <= 0
            \/ tm.Height <= 0
            \/ tm.Orientation # "orthogonal"
            \/ tm.Renderorder # "right-down"
            \/ tm.Tilewidth # 256
            \/ tm.Tileheight # 256
            \/ Len(layers) \notin 1..255
            \/ Len(tm.Tilesets) = 0
    ]_vars

----------------------------------------------------------------------------
(* Properties of the encoder and of the output file *)

EncodeDone == pc = "done" /\ file # "absent"

EncodeSucceeded == EncodeDone /\ err = "nil"

InU8(v) == v \in 0..255

InI16(v) == v \in -32768..32767

\* C17: a map whose width or height exceeds 32767 is rejected before the output file is
\* created or any byte is written, and no run with such a map succeeds.
C17_OversizedMapRejected ==
    (width > 32767 \/ height > 32767) =>
        /\ file = "absent"
        /\ out = <<>>
        /\ ~(pc = "done" /\ err = "nil")

BorderBuckets ==
    << borders.Left, borders.Right, borders.Up, borders.Down,
       borders.UpLeft, borders.UpRight, borders.DownLeft, borders.DownRight >>

\* C18: whenever Encode returns success, every value written into a u8 field was in
\* 0..255 and every value written into an i16 field was in -32768..32767.
C18_NoSilentTruncation ==
    EncodeSucceeded =>
        /\ InU8(Len(layers))
        /\ InU8(ReversedIdx(layers, GetLayer(layers, "environment").idx))
        /\ \A i \in 1..Len(layers) : \A j \in 1..Len(layers[i].Tiles) :
              InU8(layers[i].Tiles[j].Index)
        /\ InU8(Len(resources)) /\ InU8(Len(waterdropSources)) /\ InU8(Len(players))
        /\ \A p \in 1..Len(players) :
              /\ InU8(Len(players[p].Buildings)) /\ InU8(Len(players[p].Units))
              /\ \A i \in 1..Len(players[p].Buildings) :
                    /\ InU8(players[p].Buildings[i].Type)
                    /\ InI16(players[p].Buildings[i].SpawnX)
                    /\ InI16(players[p].Buildings[i].SpawnY)
              /\ \A i \in 1..Len(players[p].Units) :
                    /\ InU8(players[p].Units[i].Type)
                    /\ InI16(players[p].Units[i].SpawnX)
                    /\ InI16(players[p].Units[i].SpawnY)
        /\ InI16(width) /\ InI16(height)
        /\ \A i \in 1..Len(resources) :
              InI16(resources[i].SpawnX) /\ InI16(resources[i].SpawnY)
        /\ \A i \in 1..Len(waterdropSources) :
              InI16(waterdropSources[i].SpawnX) /\ InI16(waterdropSources[i].SpawnY)
        /\ \A k \in 1..8 :
              /\ InI16(Len(BorderBuckets[k]))
              /\ \A i \in 1..Len(BorderBuckets[k]) :
                    /\ InI16(BorderBuckets[k][i].StartX)
                    /\ InI16(BorderBuckets[k][i].StartY)
                    /\ InI16(BorderBuckets[k][i].Length)

EncodeFailed == EncodeDone /\ err = "error"

\* the two bytes of a signed 16-bit field, low byte first
LE16(v) == LET u == IF v < 0 THEN v + 65536 ELSE v IN << u % 256, (u \div 256) % 256 >>

RECURSIVE Flat(_)
\* the sections of a short list, one after the other
Flat(sections) ==
    IF sections = <<>> THEN <<>> ELSE Head(sections) \o Flat(Tail(sections))

\* the tileset type byte of a layer block
LayerKind(layer) ==
    IF \A i \in 1..Len(layer.Tiles) : layer.Tiles[i].Index = 0 THEN DECORATION_TILESET
    ELSE LET first == CHOOSE i \in 1..Len(layer.Tiles) :
                         /\ layer.Tiles[i].Index # 0
                         /\ \A j \in 1..(i - 1) : layer.Tiles[j].Index = 0
         IN  layer.Tiles[first].TileSet

\* the layer blocks, each of 1 + 2 * W * H bytes, the last layer of the list first
LayerSection ==
    LET n == Len(layers)
        size == 1 + 2 * width * height
    IN  [k \in 1..(n * size) |->
            LET layer == layers[n - ((k - 1) \div size)]
                at == (k - 1) % size
            IN  IF at = 0 THEN LayerKind(layer)
                ELSE IF at % 2 = 1 THEN layer.Tiles[(at + 1) \div 2].Flags
                ELSE layer.Tiles[at \div 2].Index % 256]

PlayerSection(player) ==
    << Len(player.Buildings) >>
    \o Flat([i \in 1..Len(player.Buildings) |->
               LET b == player.Buildings[i] IN
               << b.Type >> \o LE16(b.SpawnX) \o LE16(b.SpawnY) \o << b.Flags >>])
    \o << Len(player.Units) >>
    \o Flat([i \in 1..Len(player.Units) |->
               LET u == player.Units[i] IN
               << u.Type >> \o LE16(u.SpawnX) \o LE16(u.SpawnY)])

\* the sections of the file format in their order, for the state Encode was given
FileFormat ==
    << 165, 2 >> \o LE16(width) \o LE16(height)
    \o << Len(layers) % 256,
          (Len(layers) - (CHOOSE i \in 1..Len(layers) : layers[i].Name = "environment")) % 256 >>
    \o LayerSection
    \o << 170 >> \o LE16(0) \o LE16(0)
    \o << 153, Len(resources) >>
    \o Flat([i \in 1..Len(resources) |->
               LE16(resources[i].SpawnX) \o LE16(resources[i].SpawnY)
               \o << resources[i].ResourcePointFlags >>])
    \o << 90, Len(waterdropSources) >>
    \o Flat([i \in 1..Len(waterdropSources) |->
               LE16(waterdropSources[i].SpawnX) \o LE16(waterdropSources[i].SpawnY)
               \o << waterdropSources[i].WaterdropFlags >>])
    \o << 255, Len(players) % 256 >>
    \o Flat([p \in 1..Len(players) |-> PlayerSection(players[p])])
    \o << 165 >>
    \o Flat([k \in 1..8 |-> LE16(Len(BorderBuckets[k]))])
    \o Flat([k \in 1..8 |->
               Flat([i \in 1..Len(BorderBuckets[k]) |->
                       LE16(BorderBuckets[k][i].StartX) \o LE16(BorderBuckets[k][i].StartY)
                       \o LE16(BorderBuckets[k][i].Length)])])
    \o << 85 >>

BlockOf(layer) ==
    << LayerKind(layer) >>
    \o [k \in 1..(2 * Len(layer.Tiles)) |->
          IF k % 2 = 1 THEN layer.Tiles[(k + 1) \div 2].Flags
          ELSE layer.Tiles[k \div 2].Index]

\* the k-th layer block of the output, k counted from 0, after the 8 bytes before them
WrittenBlock(k) ==
    LET size == 1 + 2 * width * height IN
    SubSeq(out, 8 + k * size + 1, 8 + (k + 1) * size)

\* the list indices, counted from 0, of the layers named environment
EnvironmentLayers == {i \in 0..(Len(layers) - 1) : layers[i + 1].Name = "environment"}

\* C20: Encode writes the n layers of the post-removal list in reversed order, the k-th
\* written block being layer n-1-k, and writes environment_layer_index = n-1-i for the
\* list index i of the one layer named environment, so the block at that position is the
\* environment layer; without exactly one such layer Encode returns an error.
C20_ReversedLayerOrder ==
    LET n == Len(layers) IN
    /\ EncodeSucceeded =>
          /\ \A k \in 0..(n - 1) : WrittenBlock(k) = BlockOf(layers[(n - 1 - k) + 1])
          /\ \E i \in EnvironmentLayers :
                /\ EnvironmentLayers = {i}
                /\ out[8] = n - 1 - i
                /\ WrittenBlock(out[8]) = BlockOf(layers[i + 1])
    /\ (EncodeDone /\ Cardinality(EnvironmentLayers) # 1) => EncodeFailed

\* the first cell of a layer, in row-major order, that holds a tile: one cell or none
FirstNonEmptyCell(layer) ==
    {i \in 1..Len(layer.Tiles) :
        layer.Tiles[i].Index # 0 /\ \A j \in 1..(i - 1) : layer.Tiles[j].Index = 0}

\* a layer encodeLayer refuses: a non-empty tile of another kind than the first one, or
\* with an index above 255
Unencodable(layer) ==
    \E first \in FirstNonEmptyCell(layer) : \E i \in 1..Len(layer.Tiles) :
       /\ layer.Tiles[i].Index # 0
       /\ layer.Tiles[i].TileSet # layer.Tiles[first].TileSet \/ layer.Tiles[i].Index > 255

\* C21: the kind byte written for a layer is the tileset kind of its first non-empty tile
\* in row-major order, or Decoration (1) for a layer without one, which is encoded like
\* any other; a layer with a non-empty tile of another kind or with an index above 255
\* makes the encoding fail.
C21_LayerKind ==
    /\ EncodeSucceeded =>
          \A k \in 0..(Len(layers) - 1) :
             \E layer \in {layers[Len(layers) - k]} : \E block \in {WrittenBlock(k)} :
                /\ \A first \in FirstNonEmptyCell(layer) : block[1] = layer.Tiles[first].TileSet
                /\ FirstNonEmptyCell(layer) = {} => block[1] = 1
                /\ Len(block) = 1 + 2 * Len(layer.Tiles)
    /\ EncodeDone /\ (\E i \in 1..Len(layers) : Unencodable(layers[i])) => EncodeFailed

C21_Witness ==
    /\ EncodeSucceeded
    /\ \E i, j \in 1..Len(layers) :
          /\ FirstNonEmptyCell(layers[i]) = {}
          /\ \E first \in FirstNonEmptyCell(layers[j]) :
                layers[j].Tiles[first].TileSet = ENVIRONMENT_TILESET

\* C22: whenever Run returns an error, no output file of this execution exists at the
\* target path: the run failed before the file was created, or the file was removed.
C22_OutputCleanup ==
    (pc = "done" /\ err = "error") => file \in {"absent", "removed"}

\* C23: Run never reports success unless the complete encoded stream was flushed to the
\* file; a failed write makes it return an error.
C23_WriteFailuresAreErrors ==
    (pc = "done" /\ err = "nil") => (file = "written" /\ out = FileFormat)

\* ---- tile functions ----

\* the one tile of a single-cell environment layer
TheTile == layers[1].Tiles[1]

\* the shape the lookup order (UL, UR, LL, LR, LR, UR, LL, UL) gives a diagonal tile
DiagonalShape(flags) ==
    CASE flags \in {0, 7} -> SOLID_AT_UPPER_LEFT
      [] flags \in {1, 5} -> SOLID_AT_UPPER_RIGHT
      [] flags \in {2, 6} -> SOLID_AT_LOWER_LEFT
      [] flags \in {3, 4} -> SOLID_AT_LOWER_RIGHT

\* C24: for every tile index and every flags value 0..7 exactly one of
\* IsCompletelyAccessible, IsCompletelySolid, IsDiagonal holds; GetType is accessible
\* iff the index is 0, solid iff the index is between 1 and 48, and for an index of 49
\* or more it is the entry flags & 7 of (UL, UR, LL, LR, LR, UR, LL, UL).
C24_ShapeClassification ==
    \E tile \in {TheTile} :
       /\ Cardinality({p \in {<<1, IsCompletelyAccessible(tile)>>,
                               <<2, IsCompletelySolid(tile)>>,
                               <<3, IsDiagonal(tile)>>} : p[2]}) = 1
       /\ IsCompletelyAccessible(tile) <=> tile.Index = 0
       /\ IsCompletelySolid(tile) <=> (0 < tile.Index /\ tile.Index < 49)
       /\ (GetType(tile) = COMPLETELY_ACCESSIBLE) <=> tile.Index = 0
       /\ (GetType(tile) = COMPLETELY_SOLID) <=> (0 < tile.Index /\ tile.Index < 49)
       /\ tile.Index >= 49 => GetType(tile) = DiagonalShape(BitAnd(tile.Flags, 7))

C24_Witness ==
    /\ pc = "done" /\ err = "nil"
    /\ TheTile.Index > 49 /\ TheTile.Flags = 5
    /\ GetType(TheTile) = SOLID_AT_UPPER_RIGHT

CardinalSides == {LEFT, RIGHT, UP, DOWN}

AllSides == CardinalSides \cup {UPLEFT, UPRIGHT, DOWNLEFT, DOWNRIGHT}

\* the sides a tile of the given shape has a border towards
BorderSides(type) ==
    CASE type = COMPLETELY_ACCESSIBLE -> {}
      [] type = COMPLETELY_SOLID -> CardinalSides
      [] type = SOLID_AT_UPPER_LEFT -> {LEFT, UP, DOWNRIGHT}
      [] type = SOLID_AT_UPPER_RIGHT -> {RIGHT, UP, DOWNLEFT}
      [] type = SOLID_AT_LOWER_LEFT -> {LEFT, DOWN, UPRIGHT}
      [] type = SOLID_AT_LOWER_RIGHT -> {RIGHT, DOWN, UPLEFT}

\* C26: Tile.HasBorderTowards over all eight sides: an empty tile has no border, a
\* solid tile has one towards each cardinal side and none towards a diagonal side, a
\* diagonal tile has one towards exactly three sides: the two cardinal sides at its
\* solid corner and the diagonal side opposite that corner.
C26_TileBorderSides ==
    \E tile \in {TheTile} :
       /\ Cardinality(AllSides) = 8
       /\ {side \in AllSides : Tile_HasBorderTowards(tile, side)} =
             BorderSides(IF tile.Index = 0 THEN COMPLETELY_ACCESSIBLE
                         ELSE IF tile.Index < 49 THEN COMPLETELY_SOLID
                         ELSE DiagonalShape(tile.Flags))

C26_Witness ==
    /\ pc = "done" /\ err = "nil"
    /\ TheTile.Index >= 49 /\ TheTile.Flags = 6
    /\ {side \in AllSides : Tile_HasBorderTowards(TheTile, side)} = {LEFT, DOWN, UPRIGHT}

UnitVectors == {<<0, -1>>, <<-1, 0>>, <<1, 0>>, <<0, 1>>}

\* the orientation of a tile: its up vector and whether it is mirrored
OrientationOf(tile) == <<GetUpVector(tile), IsMirrored(tile)>>

\* the orientations of the eight flags values
Orientations == [f \in 0..7 |-> OrientationOf(Tile(1, f, SPAWN_TILESET))]

\* the eight orientations are pairwise distinct, and the flags values that are not
\* mirrored give four distinct up vectors
OrientationsDistinct ==
    /\ \A f, g \in 0..7 : f # g => Orientations[f] # Orientations[g]
    /\ Cardinality({Orientations[f][1] : f \in {g \in 0..7 : ~Orientations[g][2]}}) = 4

\* C25: for each tile of a scanned spawn layer, with any of the flags 0..7, GetUpVector is a
\* unit vector of the integer lattice, GetRightVector is (-uy, ux), IsMirrored holds
\* iff an odd number of the three flag bits is set, and no other flags value gives the
\* same (up vector, mirrored) pair; the four flags values that are not mirrored give
\* four distinct up vectors.
C25_OrientationVectors ==
    /\ OrientationsDistinct
    /\ pc = "done" => \A c \in 1..Len(SpawnLayer.Tiles) :
          \E tile \in {SpawnLayer.Tiles[c]} : \E up \in {GetUpVector(tile)} :
             /\ tile.Flags \in 0..7
             /\ up \in UnitVectors
             /\ GetRightVector(tile) = <<0 - up[2], up[1]>>
             /\ IsMirrored(tile) <=> tile.Flags \in {1, 2, 4, 7}
             /\ Orientations[tile.Flags] = <<up, IsMirrored(tile)>>

C25_Witness ==
    /\ pc = "done" /\ err = "nil" /\ Len(players) > 0
    /\ \E c \in 1..Len(SpawnLayer.Tiles) :
          /\ SpawnLayer.Tiles[c].Index = 162 /\ SpawnLayer.Tiles[c].Flags = 4
          /\ GetUpVector(SpawnLayer.Tiles[c]) = <<0, 1>>
          /\ IsMirrored(SpawnLayer.Tiles[c])

\* ---- border scenarios ----

Interior == {i \in 1..(width * height) :
               /\ (i - 1) % width \notin {0, width - 1}
               /\ (i - 1) \div width \notin {0, height - 1}}

\* the environment layer is a solid ring around an interior that is empty except for
\* one diagonal tile that is solid at its lower left
DiagonalOnlyMap ==
    \E i \in Interior :
       /\ GetType(layers[1].Tiles[i]) = SOLID_AT_LOWER_LEFT
       /\ [layers[1].Tiles EXCEPT ![i] = EmptyTile] = ClosedMap(width, height)

\* the borders of the solid ring alone
RingBorders ==
    ComputeBorderOfLayer(width, height,
                         [Name |-> "environment", Tiles |-> ClosedMap(width, height)]).borders

\* C27: for a solid ring whose interior holds a single diagonal tile solid at the lower
\* left, ComputeBorderOfLayer returns exactly one DownRight segment, of length 1, and
\* the Left, Right, Up and Down buckets hold exactly the segments of the ring alone.
C27_DiagonalOnlyScenario ==
    (BorderDone /\ DiagonalOnlyMap) =>
       /\ Len(borders.DownRight) = 1
       /\ borders.DownRight[1].Length = 1
       /\ borders.Left = RingBorders.Left
       /\ borders.Right = RingBorders.Right
       /\ borders.Up = RingBorders.Up
       /\ borders.Down = RingBorders.Down

\* the unit edges each cardinal bucket of b covers
EdgesOf(b) ==
    [Right |-> {e \in (0..width) \X (0..height) : \E s \in Range(b.Right) :
                   s.StartY = e[2] /\ s.StartX <= e[1] /\ e[1] < s.StartX + s.Length},
     Left  |-> {e \in (0..width) \X (0..height) : \E s \in Range(b.Left) :
                   s.StartY = e[2] /\ s.StartX - s.Length <= e[1] /\ e[1] < s.StartX},
     Up    |-> {e \in (0..width) \X (0..height) : \E s \in Range(b.Up) :
                   s.StartX = e[1] /\ s.StartY - s.Length <= e[2] /\ e[2] < s.StartY},
     Down  |-> {e \in (0..width) \X (0..height) : \E s \in Range(b.Down) :
                   s.StartX = e[1] /\ s.StartY <= e[2] /\ e[2] < s.StartY + s.Length}]

\* C27 as amended: the scenario gives exactly one DownRight segment, of length 1, and
\* the cardinal buckets cover the unit edges of the ring alone except at the left and
\* the lower side of the diagonal tile: there the ring's own edge is gone, and the
\* tile's edge is reported (in Up for its left side, in Left for its lower side)
\* exactly when the neighbouring cell is empty.
C27_DiagonalOnlyAmended ==
    (BorderDone /\ DiagonalOnlyMap) =>
       \E i \in {j \in Interior : IsDiagonal(layers[1].Tiles[j])} :
       \E dx \in {(i - 1) % width} : \E dy \in {(i - 1) \div width} :
       \E got \in {EdgesOf(borders)} : \E ring \in {EdgesOf(RingBorders)} :
          /\ Len(borders.DownRight) = 1
          /\ borders.DownRight[1].Length = 1
          /\ got.Right \ {<<dx, dy + 1>>} = ring.Right \ {<<dx, dy + 1>>}
          /\ got.Left \ {<<dx, dy + 1>>} = ring.Left \ {<<dx, dy + 1>>}
          /\ got.Up \ {<<dx, dy>>} = ring.Up \ {<<dx, dy>>}
          /\ got.Down \ {<<dx, dy>>} = ring.Down \ {<<dx, dy>>}
          /\ <<dx, dy + 1>> \notin got.Right
          /\ <<dx, dy>> \notin got.Down
          /\ <<dx, dy + 1>> \in got.Left <=> IsCompletelyAccessible(CellAt(dx, dy + 1))
          /\ <<dx, dy>> \in got.Up <=> IsCompletelyAccessible(CellAt(dx - 1, dy))

\* C27 witness: the diagonal tile has the ring to its left and an empty cell below it,
\* and the Left bucket and the Down bucket both differ from those of the ring alone.
C27_Witness ==
    /\ BorderDone /\ DiagonalOnlyMap
    /\ \E i \in Interior :
          /\ IsDiagonal(layers[1].Tiles[i])
          /\ IsCompletelySolid(layers[1].Tiles[i - 1])
          /\ IsCompletelyAccessible(layers[1].Tiles[i + width])
    /\ borders.Left # RingBorders.Left
    /\ borders.Down # RingBorders.Down

\* ---- order of the steps of Run ----

\* the file given to Run violates a rule of ValidateTileMap
StructurallyInvalid == ValidateTileMap(input.TileMap) = "error"

\* C28: ValidateTileMap takes place before the tileset kinds are assigned and the layers
\* decoded: a run on a file that violates a structural rule fails in ValidateTileMap,
\* also when the file has an unknown tileset name, a wrong token count or an
\* unresolvable tile id; ExtractSpawnInfo starts only after the validation succeeded.
C28_ValidationBeforeDecoding ==
    [][ /\ (StructurallyInvalid /\ pc # "done" /\ pc' = "done") =>
              (pc = "ValidateTileMap" /\ err' = "error")
        /\ pc' = "ExtractSpawnInfo" => (pc = "ValidateTileMap" /\ err' = "nil")
      ]_vars

\* the later steps alone: each starts only after the previous one succeeded
StepsInOrder ==
    [][ /\ pc' = "ValidateTileMap" => (pc = "LoadTilesFile" /\ err' = "nil")
        /\ pc' = "ExtractSpawnInfo" => (pc = "ValidateTileMap" /\ err' = "nil")
      ]_vars

\* ---- the tile ids of the spawn tileset ----

\* the classes of tile ids of GetTileMapping
IdClasses ==
    [unit |-> DOMAIN unitMapping, player |-> DOMAIN playerMapping,
     building |-> DOMAIN buildingMapping, resource |-> {resourceMapping},
     waterdrop |-> {waterdropSpawnMapping}]

ClassesOf(id) == {c \in DOMAIN IdClasses : id \in IdClasses[c]}

\* the ids of the mapping alone: the first ids, the sizes of the classes, and every id
\* in one class and of one (player, offset) pair
MappingDistinct ==
    /\ \A p \in 0..7 : firstIdx(p) = <<1, 11, 41, 51, 81, 91, 121, 131>>[p + 1]
    /\ Cardinality(IdClasses.unit) = 40
    /\ Cardinality(IdClasses.player) = 8
    /\ IdClasses.building = {162, 234, 238}
    /\ \A id \in UNION {IdClasses[c] : c \in DOMAIN IdClasses} :
          /\ Cardinality(ClassesOf(id)) = 1
          /\ Cardinality({q \in (0..7) \X (0..9) : firstIdx(q[1]) + q[2] = id}) <= 1
    /\ \A id \in IdClasses.unit :
          Cardinality({q \in (0..7) \X {0, 2, 4, 6, 8} : firstIdx(q[1]) + q[2] = id}) = 1

\* C29: the mapping of GetTileMapping is unambiguous: the first id of player p is
\* 1 + 10p + 20(p div 2), the 40 unit ids and the 8 player-token ids are pairwise
\* distinct, none of them is the resource id 173, the water-drop id 177 or a building id
\* 162, 234, 238, so every id, and every tile of a scanned spawn layer, belongs to at most one
\* class and to at most one (player, type) pair.
C29_TileMappingUnambiguous ==
    /\ MappingDistinct
    /\ pc = "done" => \A c \in 1..Len(SpawnLayer.Tiles) :
          Cardinality(ClassesOf(SpawnLayer.Tiles[c].Index)) <= 1

\* C29 witness: a successful extraction from a spawn layer that holds a player token, a
\* building tile and a resource tile, each of exactly one class
C29_Witness ==
    /\ pc = "done" /\ err = "nil" /\ Len(players) > 0
    /\ \A c \in {"player", "building", "resource"} :
          \E i \in 1..Len(SpawnLayer.Tiles) : ClassesOf(SpawnLayer.Tiles[i].Index) = {c}

\* ---- unit edges reported once ----

\* the unit edges a bucket covers, each as often as segments of the bucket cover it
TimesCovered(bucket, e) == Cardinality({j \in 1..Len(borders[bucket]) :
                                          e \in EdgesOf([borders EXCEPT
                                                 ![bucket] = <<borders[bucket][j]>>])[bucket]})

\* C30: in the result of ComputeBorderOfLayer no horizontal unit edge is covered by a
\* Right segment and by a Left segment, no vertical unit edge by an Up segment and by a
\* Down segment, and no unit edge by two segments of one bucket.
C30_NoEdgeFromBothSides ==
    BorderDone =>
       \E got \in {EdgesOf(borders)} :
          /\ got.Right \cap got.Left = {}
          /\ got.Up \cap got.Down = {}
          /\ \A bucket \in {"Right", "Left", "Up", "Down"} :
                \A e \in got[bucket] : TimesCovered(bucket, e) = 1

\* C30 witness: all four cardinal buckets hold segments, the Right bucket two or more,
\* and a diagonal tile lies next to a solid one
C30_Witness ==
    /\ BorderDone
    /\ borders.Left # <<>> /\ borders.Up # <<>> /\ borders.Down # <<>>
    /\ Len(borders.Right) >= 2
    /\ \E x \in 0..(width - 2), y \in 0..(height - 1) :
          IsDiagonal(CellAt(x, y)) /\ IsCompletelySolid(CellAt(x + 1, y))

====
